---------------------------- MODULE Spec2Model ----------------------------
(***************************************************************************)
(* Model of the mcodec grayscale codec: encode_to_mcodec and               *)
(* decode_from_mcodec with every stage they call (level shift, tiling,     *)
(* DCT, quantizer, zigzag, zero-RLE, symbol packing, canonical Huffman,    *)
(* container header).                                                      *)
(*                                                                         *)
(* Vectors are sequences (1-based); an index of the code is kept 0-based   *)
(* wherever the code stores it (zigzag order, Huffman node links) and is   *)
(* shifted by one at the point of access.  A function of the code that     *)
(* throws is an operator whose result has ok = FALSE.                      *)
(***************************************************************************)
EXTENDS Integers, Sequences, FiniteSets, TLC

(***************************************************************************)
(* Bounds of the model.                                                    *)
(***************************************************************************)
\* largest number of 64-sample chunks of a 8-pixel-wide input image
MaxChunks == 2
\* largest number of non-zero coefficients placed in one RLE input block
MaxNonZero == 2
MaxRleBlocks == 2
\* largest number of pairs in a stream handed to the zero-run decoder
MaxPairs == 3
\* largest number of symbols of a histogram handed to the table build on its own
MaxLeaves == 35
\* largest number of (symbol, length) entries of a table read from a container
MaxEntries == 3
\* largest number of bytes of a bit buffer handed to huff_decode on its own
MaxBytes == 2
MaxSymbols == 3
\* largest number of blocks in a buffer handed to one stage
MaxBlocks == 2
\* largest number of pixels of an image handed to the level shift
MaxPixels == 2
\* largest width and height of an image handed to the tiling
MaxSide == 17

(***************************************************************************)
(* Integer helpers: fixed-width arithmetic of the code.                    *)
(***************************************************************************)
RECURSIVE Pow2(_)
Pow2(n) == IF n = 0 THEN 1 ELSE 2 * Pow2(n - 1)

U8Mod == 256
U16Mod == 65536
I16Max == 32767
I32Max == 2147483647

\* static_cast<uint8_t>(v), static_cast<uint16_t>(v) of an int
ToU8(v) == v % U8Mod
ToU16(v) == v % U16Mod
\* static_cast<int16_t>(v) of a uint16_t
ToI16(v) == IF v > I16Max THEN v - U16Mod ELSE v

\* A uint32_t is the pair of its 16-bit halves, so that all 2^32 values have
\* a representation; a size_t is the same pair with an unbounded hi.
W(hi, lo) == [hi |-> hi, lo |-> lo]
U32Zero == W(0, 0)
U32Ones == W(U16Mod - 1, U16Mod - 1)
\* the uint32_t / size_t of an int n >= 0
OfNat(n) == W(n \div U16Mod, n % U16Mod)
\* static_cast<uint32_t>(n) of an int n
ToU32(n) == W((n \div U16Mod) % U16Mod, n % U16Mod)
\* static_cast<uint32_t>(s) of a size_t
Wrap32(s) == W(s.hi % U16Mod, s.lo)
\* static_cast<int>(u): the int with the bit pattern of u
ToI32(u) == IF u.hi > I16Max THEN (u.hi - U16Mod) * U16Mod + u.lo ELSE u.hi * U16Mod + u.lo
WLess(a, b) == a.hi < b.hi \/ (a.hi = b.hi /\ a.lo < b.lo)
WLeq(a, b) == a = b \/ WLess(a, b)
WMin(a, b) == IF WLess(b, a) THEN b ELSE a
\* a + b in size_t, and in uint32_t
WAdd(a, b) == W(a.hi + b.hi + (a.lo + b.lo) \div U16Mod, (a.lo + b.lo) % U16Mod)
U32Add(a, b) == Wrap32(WAdd(a, b))
WInc(a) == WAdd(a, W(0, 1))
\* a * k in size_t, for an int 0 <= k <= 256
WScale(a, k) == W(a.hi * k + (a.lo * k) \div U16Mod, (a.lo * k) % U16Mod)
U32Inc(a) == U32Add(a, W(0, 1))
\* u << k in uint32_t, 0 <= k < 32
U32Shl(u, k) ==
    IF k >= 16 THEN W((u.lo * Pow2(k - 16)) % U16Mod, 0)
    ELSE W((u.hi * Pow2(k) + (u.lo * Pow2(k)) \div U16Mod) % U16Mod, (u.lo * Pow2(k)) % U16Mod)
\* (u >> i) & 1, 0 <= i < 32
U32Bit(u, i) == IF i >= 16 THEN (u.hi \div Pow2(i - 16)) % 2 ELSE (u.lo \div Pow2(i)) % 2
\* an int n >= 0 compared with a size_t
NatLess(n, s) == WLess(OfNat(n), s)
\* the number of iterations a loop "for (n = 0; n < count; ++n)" can make
\* before an int of the model overflows
LoopCount(u) == IF u.hi > I16Max THEN I32Max ELSE u.hi * U16Mod + u.lo

Min(a, b) == IF a < b THEN a ELSE b
Max(a, b) == IF a > b THEN a ELSE b
Abs(a) == IF a < 0 THEN -a ELSE a

\* std::round(n / d) for d > 0: nearest integer, halves away from zero
RoundHalfAway(n, d) ==
    LET r == (2 * Abs(n) + d) \div (2 * d) IN IF n < 0 THEN -r ELSE r

\* std::vector(n, v)
Fill(n, v) == [i \in 1..n |-> v]

RECURSIVE Flatten(_)
Flatten(ss) == IF ss = <<>> THEN <<>> ELSE Head(ss) \o Flatten(Tail(ss))

(***************************************************************************)
(* Image and PixelType (io/image_types.hpp).                               *)
(***************************************************************************)
U8 == 1
U16 == 2
S16 == 3

Image(w, h, ch, bs, ba, sg, ty, px) ==
    [width |-> w, height |-> h, channels |-> ch, bits_stored |-> bs,
     bits_allocated |-> ba, is_signed |-> sg, type |-> ty, pixels |-> px]

(***************************************************************************)
(* preprocess/level_shift.cpp                                              *)
(***************************************************************************)
clamp_i32(v, lo, hi) == Min(Max(v, lo), hi)

\* apply_level_shift without its last statement "img.is_signed = true"
apply_level_shift_unmarked(img) ==
    IF img.pixels = <<>> THEN [ok |-> TRUE, img |-> img]
    ELSE IF img.bits_stored <= 0 \/ img.bits_stored > 16
         THEN [ok |-> FALSE, img |-> img]
    ELSE IF img.is_signed THEN [ok |-> TRUE, img |-> img]
    ELSE LET offset == Pow2(img.bits_stored - 1) IN
         [ok |-> TRUE,
          img |-> [img EXCEPT !.pixels = [i \in 1..Len(img.pixels) |-> img.pixels[i] - offset]]]

apply_level_shift(img) ==
    IF img.pixels = <<>> THEN [ok |-> TRUE, img |-> img]
    ELSE IF img.bits_stored <= 0 \/ img.bits_stored > 16
         THEN [ok |-> FALSE, img |-> img]
    ELSE IF img.is_signed THEN [ok |-> TRUE, img |-> img]
    ELSE LET offset == Pow2(img.bits_stored - 1) IN
         [ok |-> TRUE,
          img |-> [img EXCEPT !.pixels = [i \in 1..Len(img.pixels) |-> img.pixels[i] - offset],
                              !.is_signed = TRUE]]

\* inverse_level_shift without its last statement "img.is_signed = false"
inverse_level_shift_keeps_sign(img) ==
    IF img.pixels = <<>> THEN [ok |-> TRUE, img |-> img]
    ELSE IF img.bits_stored <= 0 \/ img.bits_stored > 16
         THEN [ok |-> FALSE, img |-> img]
    ELSE LET offset == Pow2(img.bits_stored - 1)
             maxv == Pow2(img.bits_stored) - 1 IN
         [ok |-> TRUE,
          img |-> [img EXCEPT !.pixels = [i \in 1..Len(img.pixels) |->
                                             clamp_i32(img.pixels[i] + offset, 0, maxv)]]]

inverse_level_shift(img) ==
    IF img.pixels = <<>> THEN [ok |-> TRUE, img |-> img]
    ELSE IF img.bits_stored <= 0 \/ img.bits_stored > 16
         THEN [ok |-> FALSE, img |-> img]
    ELSE LET offset == Pow2(img.bits_stored - 1)
             maxv == Pow2(img.bits_stored) - 1 IN
         [ok |-> TRUE,
          img |-> [img EXCEPT !.pixels = [i \in 1..Len(img.pixels) |->
                                             clamp_i32(img.pixels[i] + offset, 0, maxv)],
                              !.is_signed = FALSE]]

(***************************************************************************)
(* block/tiling.cpp                                                        *)
(***************************************************************************)
make_grid(width, height, block_size) ==
    IF block_size # 8 /\ block_size # 16 THEN [ok |-> FALSE]
    ELSE IF width <= 0 \/ height <= 0 THEN [ok |-> FALSE]
    ELSE LET bx == (width + block_size - 1) \div block_size
             by == (height + block_size - 1) \div block_size IN
         [ok |-> TRUE, block_size |-> block_size, blocks_x |-> bx, blocks_y |-> by,
          padded_w |-> bx * block_size, padded_h |-> by * block_size]

tile_to_blocks(img, g) ==
    IF img.channels # 1 THEN [ok |-> FALSE, padded |-> <<>>]
    ELSE IF img.width <= 0 \/ img.height <= 0 THEN [ok |-> FALSE, padded |-> <<>>]
    ELSE IF Len(img.pixels) # img.width * img.height THEN [ok |-> FALSE, padded |-> <<>>]
    ELSE IF g.padded_w <= 0 \/ g.padded_h <= 0 THEN [ok |-> FALSE, padded |-> <<>>]
    ELSE [ok |-> TRUE,
          padded |-> [k \in 1..(g.padded_w * g.padded_h) |->
                        LET y == (k - 1) \div g.padded_w
                            x == (k - 1) % g.padded_w IN
                        IF y < img.height /\ x < img.width
                        THEN img.pixels[y * img.width + x + 1] ELSE 0]]

\* an untiling that reads the raster with the stride of the image
untile_from_blocks_dense(img, g, padded) ==
    IF img.channels # 1 THEN [ok |-> FALSE, img |-> img]
    ELSE IF img.width <= 0 \/ img.height <= 0 THEN [ok |-> FALSE, img |-> img]
    ELSE IF Len(padded) # g.padded_w * g.padded_h THEN [ok |-> FALSE, img |-> img]
    ELSE [ok |-> TRUE,
          img |-> [img EXCEPT !.pixels = [k \in 1..(img.width * img.height) |-> padded[k]]]]

untile_from_blocks(img, g, padded) ==
    IF img.channels # 1 THEN [ok |-> FALSE, img |-> img]
    ELSE IF img.width <= 0 \/ img.height <= 0 THEN [ok |-> FALSE, img |-> img]
    ELSE IF Len(padded) # g.padded_w * g.padded_h THEN [ok |-> FALSE, img |-> img]
    ELSE [ok |-> TRUE,
          img |-> [img EXCEPT !.pixels = [k \in 1..(img.width * img.height) |->
                        LET y == (k - 1) \div img.width
                            x == (k - 1) % img.width IN
                        padded[y * g.padded_w + x + 1]]]]

(***************************************************************************)
(* transform/dct2d.cpp and quant/quantizer.cpp.                            *)
(*                                                                         *)
(* The float32 coefficient buffer is a sequence of integers.  The model    *)
(* covers the chunks on which the double/float arithmetic of the code has  *)
(* an exact integer result: a constant chunk of N*N samples c transforms   *)
(* to DC = N*c with every AC term of magnitude below 1/2 (written 0 here,  *)
(* quantize rounds it to 0 for every step), and a DC-only chunk D          *)
(* transforms back to N*N samples round(D / N).  Other chunks have no      *)
(* case below.                                                             *)
(***************************************************************************)
Chunk(buf, b, n) == SubSeq(buf, (b - 1) * n + 1, b * n)

IsConstantChunk(c) == \A i \in 1..Len(c) : c[i] = c[1]
IsDcOnlyChunk(c) == \A i \in 2..Len(c) : c[i] = 0

dct2d_chunk(c, N) ==
    CASE IsConstantChunk(c) -> [i \in 1..(N * N) |-> IF i = 1 THEN N * c[1] ELSE 0]

dct2d_blocks(blocks_in, block_size) ==
    IF block_size # 8 /\ block_size # 16 THEN [ok |-> FALSE, coeff |-> <<>>]
    ELSE IF Len(blocks_in) % (block_size * block_size) # 0 THEN [ok |-> FALSE, coeff |-> <<>>]
    ELSE LET n == block_size * block_size
             blocks == Len(blocks_in) \div n IN
         [ok |-> TRUE,
          coeff |-> Flatten([b \in 1..blocks |-> dct2d_chunk(Chunk(blocks_in, b, n), block_size)])]

idct2d_chunk(c, N) ==
    CASE IsDcOnlyChunk(c) ->
        LET sum == RoundHalfAway(c[1], N) IN
        [i \in 1..(N * N) |-> clamp_i32(sum, -I32Max - 1, I32Max)]

idct2d_blocks(coeff_in, block_size) ==
    IF block_size # 8 /\ block_size # 16 THEN [ok |-> FALSE, blocks |-> <<>>]
    ELSE IF Len(coeff_in) % (block_size * block_size) # 0 THEN [ok |-> FALSE, blocks |-> <<>>]
    ELSE LET n == block_size * block_size
             blocks == Len(coeff_in) \div n IN
         [ok |-> TRUE,
          blocks |-> Flatten([b \in 1..blocks |-> idct2d_chunk(Chunk(coeff_in, b, n), block_size)])]

\* ---- chunks of two levels: what the float32 buffer and the final rounding
\* can do to them ----
\* The chunk holds p in the columns x = 0, 3, 4, 7 and q in the columns
\* x = 1, 2, 5, 6 of every row, the sign pattern of cos((2x+1) * 4 * pi / 16).
\* Its exact transform is 4(p+q) at (v,u) = (0,0), 4(p-q) at (0,4) and 0
\* elsewhere, and the exact inverse of coefficients C0, C4 there is
\* (C0 + C4) / 8 in the p columns and (C0 - C4) / 8 in the q columns.  The
\* double sums of the code carry a rounding noise far below one unit, of
\* either sign, so a value that lies exactly between two float32 values, or
\* exactly between two integers, can be rounded to either of them.
TwoLevelSign(i) == IF ((i - 1) % 8) \in {0, 3, 4, 7} THEN 1 ELSE -1
TwoLevelChunk(p, q) == [i \in 1..64 |-> IF TwoLevelSign(i) = 1 THEN p ELSE q]
IsTwoLevelChunk(c) == Len(c) = 64 /\ c = TwoLevelChunk(c[1], c[2])

\* the spacing of the float32 values around the magnitude a
RECURSIVE FloatUlp(_, _)
FloatUlp(a, u) == IF a \div u < Pow2(24) THEN u ELSE FloatUlp(a, 2 * u)

\* static_cast<float>(sum) for a sum within noise of the integer v: the
\* float32 values it can give
FloatCast(v) ==
    LET a == Abs(v)
        u == FloatUlp(a, 1)
        lo == (a \div u) * u
        mags == IF a = lo THEN {a}
                ELSE IF 2 * (a - lo) < u THEN {lo}
                ELSE IF 2 * (a - lo) > u THEN {lo + u}
                ELSE {lo, lo + u} IN
    { IF v < 0 THEN -m ELSE m : m \in mags }

\* std::round(sum) for a sum within noise of n / d, d > 0
RoundOutcomes(n, d) ==
    IF (2 * Abs(n)) % (2 * d) = d
    THEN {n \div d, n \div d + 1}
    ELSE {RoundHalfAway(n, d)}

\* dct2d_blocks on one two-level 8 x 8 chunk: for every coefficient, the
\* float32 values it can hold, up to noise
dct2d_outcomes(c) ==
    [i \in 1..64 |-> IF i = 1 THEN FloatCast(4 * (c[1] + c[2]))
                     ELSE IF i = 5 THEN FloatCast(4 * (c[1] - c[2]))
                     ELSE {0}]

\* idct2d_blocks on such coefficients: for every sample, the values it can
\* get
idct2d_outcomes(cs) ==
    [i \in 1..64 |->
        UNION { UNION { { clamp_i32(r, -I32Max - 1, I32Max) :
                            r \in RoundOutcomes(c0 + TwoLevelSign(i) * c4, 8) } :
                        c4 \in cs[5] } : c0 \in cs[1] }]

quant_step_from_quality(quality) ==
    LET q == 101 - quality IN
    IF q < 1 THEN 1 ELSE IF q > 100 THEN 100 ELSE q

quantize(coeff_in, block_size, quality) ==
    IF block_size # 8 /\ block_size # 16 THEN [ok |-> FALSE, qcoeff |-> <<>>]
    ELSE IF Len(coeff_in) % (block_size * block_size) # 0 THEN [ok |-> FALSE, qcoeff |-> <<>>]
    ELSE LET step == quant_step_from_quality(quality) IN
         [ok |-> TRUE,
          qcoeff |-> [i \in 1..Len(coeff_in) |->
                        LET q == RoundHalfAway(coeff_in[i], step) IN
                        IF q > I16Max THEN I16Max ELSE IF q < -I16Max - 1 THEN -I16Max - 1 ELSE q]]

dequantize(qcoeff_in, block_size, quality) ==
    IF block_size # 8 /\ block_size # 16 THEN [ok |-> FALSE, coeff |-> <<>>]
    ELSE IF Len(qcoeff_in) % (block_size * block_size) # 0 THEN [ok |-> FALSE, coeff |-> <<>>]
    ELSE LET step == quant_step_from_quality(quality) IN
         [ok |-> TRUE, coeff |-> [i \in 1..Len(qcoeff_in) |-> qcoeff_in[i] * step]]

(***************************************************************************)
(* block/zigzag.cpp                                                        *)
(***************************************************************************)
\* the cells y*N + x of antidiagonal s, in the order the inner loop visits them
ZigzagDiagonal(N, s) ==
    LET cells == [k \in 1..(s + 1) |->
                    IF s % 2 = 0 THEN [x |-> k - 1, y |-> s - (k - 1)]
                                 ELSE [x |-> s - (k - 1), y |-> k - 1]]
        inside == SelectSeq(cells, LAMBDA c : c.x < N /\ c.y < N) IN
    [k \in 1..Len(inside) |-> inside[k].y * N + inside[k].x]

RECURSIVE ZigzagFrom(_, _)
ZigzagFrom(N, s) ==
    IF s > 2 * (N - 1) THEN <<>> ELSE ZigzagDiagonal(N, s) \o ZigzagFrom(N, s + 1)

make_zigzag_order(N) == ZigzagFrom(N, 0)

ZigzagOrder8 == make_zigzag_order(8)
ZigzagOrder16 == make_zigzag_order(16)
OrderOf(block_size) == IF block_size = 8 THEN ZigzagOrder8 ELSE ZigzagOrder16

zigzag_scan_blocks(qcoeff_in, block_size) ==
    IF block_size # 8 /\ block_size # 16 THEN [ok |-> FALSE, seq |-> <<>>]
    ELSE IF Len(qcoeff_in) % (block_size * block_size) # 0 THEN [ok |-> FALSE, seq |-> <<>>]
    ELSE LET n == block_size * block_size
             order == OrderOf(block_size) IN
         [ok |-> TRUE,
          seq |-> [k \in 1..Len(qcoeff_in) |->
                     LET b == (k - 1) \div n
                         i == (k - 1) % n IN
                     qcoeff_in[b * n + order[i + 1] + 1]]]

\* the loop "dst[order[i]] = src[i]" read from the destination side:
\* ZigzagWriter(order, j) is the last position i (1-based) whose write lands
\* on cell j, or 0 when no write does and the cell keeps the 0 of resize()
ZigzagWriter(order, j) ==
    LET hits == {i \in 1..Len(order) : order[i] = j} IN
    IF hits = {} THEN 0 ELSE CHOOSE i \in hits : \A k \in hits : k <= i

zigzag_writer_table(order) == [j \in 1..Len(order) |-> ZigzagWriter(order, j - 1)]
ZigzagWriter8 == zigzag_writer_table(ZigzagOrder8)
ZigzagWriter16 == zigzag_writer_table(ZigzagOrder16)
WriterOf(block_size) == IF block_size = 8 THEN ZigzagWriter8 ELSE ZigzagWriter16

\* an inverse that gathers through the order again, dst[i] = src[order[i]]
inverse_zigzag_gather(seq_in, block_size) ==
    [ok |-> zigzag_scan_blocks(seq_in, block_size).ok,
     qcoeff |-> zigzag_scan_blocks(seq_in, block_size).seq]

inverse_zigzag_blocks(seq_in, block_size) ==
    IF block_size # 8 /\ block_size # 16 THEN [ok |-> FALSE, qcoeff |-> <<>>]
    ELSE IF Len(seq_in) % (block_size * block_size) # 0 THEN [ok |-> FALSE, qcoeff |-> <<>>]
    ELSE LET n == block_size * block_size
             writer == WriterOf(block_size) IN
         [ok |-> TRUE,
          qcoeff |-> [k \in 1..Len(seq_in) |->
                        LET b == (k - 1) \div n
                            j == (k - 1) % n IN
                        IF writer[j + 1] = 0 THEN 0 ELSE seq_in[b * n + writer[j + 1]]]]

(***************************************************************************)
(* entropy/rle.cpp                                                         *)
(***************************************************************************)
RlePair(value, run) == [value |-> value, run |-> run]

\* a loop body that keeps the run after a non-zero value
rle_ac_step_keeps_run(seq_in, i, st) ==
    IF seq_in[i + 1] = 0
    THEN [out |-> st.out, run |-> st.run + 1]
    ELSE [out |-> Append(st.out, RlePair(seq_in[i + 1], st.run)), run |-> st.run]

\* one iteration of the inner loop, at the 0-based position i; st = [out, run]:
\* a zero first flushes a full run of 65535 as a pair (0, 65535), then is
\* counted; a non-zero value is pushed with the run before it
rle_ac_step(seq_in, i, st) ==
    IF seq_in[i + 1] = 0
    THEN IF st.run = U16Mod - 1
         THEN [out |-> Append(st.out, RlePair(0, st.run)), run |-> 1]
         ELSE [out |-> st.out, run |-> st.run + 1]
    ELSE [out |-> Append(st.out, RlePair(seq_in[i + 1], st.run)), run |-> 0]

\* the inner loop over the AC positions i .. block_end-1 of one block: the
\* iterations of the first half of the range, then those of the second
RECURSIVE rle_block_ac(_, _, _, _)
rle_block_ac(seq_in, i, block_end, st) ==
    IF i >= block_end THEN st
    ELSE IF i + 1 = block_end THEN rle_ac_step(seq_in, i, st)
    ELSE LET half == rle_block_ac(seq_in, i, (i + block_end) \div 2, st) IN
         \* run is a uint16_t
         IF half.run \in 0..(U16Mod - 1)
         THEN rle_block_ac(seq_in, (i + block_end) \div 2, block_end, half)
         ELSE half

\* a trailing run stored at its full length
rle_push_trailing_full_run(out, run) ==
    IF run > 0 THEN Append(out, RlePair(0, run)) ELSE out

\* "push the last run of zeros": a pair (0, run - 1), whose decode yields
\* exactly run zeros
rle_push_trailing(out, run) ==
    IF run > 0 THEN Append(out, RlePair(0, ToU16(run - 1))) ELSE out

\* a DC pair pushed only for a non-zero dc
rle_push_dc_nonzero(out, dc) ==
    IF dc = 0 THEN out ELSE Append(out, RlePair(dc, 0))

\* "rle_out.push_back({dc, 0})", whatever dc is
rle_push_dc(out, dc) == Append(out, RlePair(dc, 0))

\* the outer loop: one iteration per block, starting at offset i
RECURSIVE rle_blocks_from(_, _, _, _)
rle_blocks_from(seq_in, i, block_elems, out) ==
    IF i >= Len(seq_in) THEN out
    ELSE LET dc == seq_in[i + 1]
             block_end == (i + 1) + block_elems - 1
             st == rle_block_ac(seq_in, i + 1, block_end,
                                [out |-> rle_push_dc(out, dc), run |-> 0])
             done == rle_push_trailing(st.out, st.run) IN
         rle_blocks_from(seq_in, block_end, block_elems, done)

rle_encode_zeros(seq_in, block_size) ==
    IF block_size # 8 /\ block_size # 16 THEN [ok |-> FALSE, rle |-> <<>>]
    ELSE IF Len(seq_in) % (block_size * block_size) # 0 THEN [ok |-> FALSE, rle |-> <<>>]
    ELSE [ok |-> TRUE, rle |-> rle_blocks_from(seq_in, 0, block_size * block_size, <<>>)]

\* one iteration of the decoder's loop, for the pair p; st = [ok, seq]: the
\* run of zeros, the value, then the check of the size against total_coeffs
\* (a size_t); nothing runs after a throw
rle_decode_step(p, total_coeffs, st) ==
    IF ~st.ok THEN st
    ELSE LET grown == (IF p.run > 0 THEN st.seq \o Fill(p.run, 0) ELSE st.seq)
                          \o <<p.value>> IN
         [ok |-> ~WLess(total_coeffs, OfNat(Len(grown))), seq |-> grown]

\* the iterations for the pairs k .. last: those of the first half of the
\* range, then, unless one of them threw, those of the second
RECURSIVE rle_decode_range(_, _, _, _, _)
rle_decode_range(rle_in, k, last, total_coeffs, st) ==
    IF k > last THEN st
    ELSE IF k = last THEN rle_decode_step(rle_in[k], total_coeffs, st)
    ELSE LET half == rle_decode_range(rle_in, k, (k + last) \div 2, total_coeffs, st) IN
         IF ~half.ok THEN half
         ELSE rle_decode_range(rle_in, (k + last) \div 2 + 1, last, total_coeffs, half)

\* the loop over the pairs k..; stops with ok = FALSE as soon as the output
\* is longer than total_coeffs
rle_decode_from(rle_in, k, total_coeffs, out) ==
    rle_decode_range(rle_in, k, Len(rle_in), total_coeffs, [ok |-> TRUE, seq |-> out])

\* a decoder that accepts an output shorter than total_coeffs
rle_decode_zeros_any_shorter(rle_in, block_size, total_coeffs) ==
    IF block_size # 8 /\ block_size # 16 THEN [ok |-> FALSE, seq |-> <<>>]
    ELSE rle_decode_from(rle_in, 1, total_coeffs, <<>>)

rle_decode_zeros(rle_in, block_size, total_coeffs) ==
    IF block_size # 8 /\ block_size # 16 THEN [ok |-> FALSE, seq |-> <<>>]
    ELSE LET r == rle_decode_from(rle_in, 1, total_coeffs, <<>>) IN
         IF ~r.ok THEN r
         ELSE IF OfNat(Len(r.seq)) # total_coeffs THEN [ok |-> FALSE, seq |-> r.seq]
         ELSE r

\* a packing that widens the value with its sign before the OR
pack_rle_symbols_sign_extended(pairs) ==
    [k \in 1..Len(pairs) |->
        W(IF pairs[k].value < 0 THEN U16Mod - 1 ELSE pairs[k].run, ToU16(pairs[k].value))]

pack_rle_symbols(pairs) ==
    [k \in 1..Len(pairs) |-> W(pairs[k].run, ToU16(pairs[k].value))]

\* an unpacking that keeps the low 16 bits as an unsigned value
unpack_rle_symbols_unsigned(symbols) ==
    [k \in 1..Len(symbols) |-> RlePair(symbols[k].lo, symbols[k].hi)]

unpack_rle_symbols(symbols) ==
    [k \in 1..Len(symbols) |-> RlePair(ToI16(symbols[k].lo), symbols[k].hi)]

(***************************************************************************)
(* entropy/huffman.cpp                                                     *)
(*                                                                         *)
(* HuffTable: enc is the encode vector restricted to its valid entries     *)
(* (a function symbol -> [code, len]), enc_size its size(), decode_nodes   *)
(* the decode trie with the 0-based links of the code.  The int symbol of  *)
(* a trie node is kept as its 32-bit pattern, so that NoSymbol is the      *)
(* pattern of -1.  Frequencies are ints below 2^30, where the uint32_t     *)
(* additions of the code cannot wrap.                                      *)
(***************************************************************************)
NoSymbol == U32Ones
HuffNode(l, r, sym) == [left |-> l, right |-> r, symbol |-> sym]
NoTable == [ok |-> FALSE, enc |-> <<>>, enc_size |-> U32Zero, decode_nodes |-> <<>>]

SymbolsOf(symbols) == {symbols[k] : k \in 1..Len(symbols)}
CountOf(symbols, s) == Cardinality({k \in 1..Len(symbols) : symbols[k] = s})

\* the (symbol, freq) pairs of a set, sorted by symbol
RECURSIVE SortedBySymbol(_)
SortedBySymbol(pairs) ==
    IF pairs = {} THEN <<>>
    ELSE LET m == CHOOSE p \in pairs : \A q \in pairs : WLeq(p[1], q[1]) IN
         <<m>> \o SortedBySymbol(pairs \ {m})

build_symbol_frequencies(symbols) ==
    SortedBySymbol({<<s, CountOf(symbols, s)>> : s \in SymbolsOf(symbols)})

\* ---- BitWriter: [data, cur, bit_pos] ----
BitWriterInit == [data |-> <<>>, cur |-> 0, bit_pos |-> 0]

RECURSIVE write_bits_from(_, _, _)
write_bits_from(bw, code, i) ==
    IF i < 0 THEN bw
    ELSE LET bit == U32Bit(code, i)
             cur == ToU8(bw.cur * 2 + bit)
             pos == bw.bit_pos + 1 IN
         write_bits_from(IF pos = 8
                         THEN [data |-> Append(bw.data, cur), cur |-> 0, bit_pos |-> 0]
                         ELSE [data |-> bw.data, cur |-> cur, bit_pos |-> pos],
                         code, i - 1)

write_bits(bw, code, bit_len) == write_bits_from(bw, code, bit_len - 1)

flush(bw) ==
    IF bw.bit_pos > 0
    THEN [data |-> Append(bw.data, ToU8(bw.cur * Pow2(8 - bw.bit_pos))),
          cur |-> 0, bit_pos |-> 0]
    ELSE bw

\* ---- BitReader: [byte_idx, bit_pos] over data ----
BitReaderInit == [byte_idx |-> 0, bit_pos |-> 0]

\* a reader that takes the bits of a byte from the least significant end
read_bit_lsb_first(data, br) ==
    IF br.byte_idx >= Len(data) THEN [ok |-> FALSE, bit |-> 0, br |-> br]
    ELSE [ok |-> TRUE, bit |-> (data[br.byte_idx + 1] \div Pow2(br.bit_pos)) % 2,
          br |-> IF br.bit_pos + 1 = 8
                 THEN [byte_idx |-> br.byte_idx + 1, bit_pos |-> 0]
                 ELSE [byte_idx |-> br.byte_idx, bit_pos |-> br.bit_pos + 1]]

read_bit(data, br) ==
    IF br.byte_idx >= Len(data) THEN [ok |-> FALSE, bit |-> 0, br |-> br]
    ELSE LET byte == data[br.byte_idx + 1]
             bit == (byte \div Pow2(7 - br.bit_pos)) % 2 IN
         [ok |-> TRUE, bit |-> bit,
          br |-> IF br.bit_pos + 1 = 8
                 THEN [byte_idx |-> br.byte_idx + 1, bit_pos |-> 0]
                 ELSE [byte_idx |-> br.byte_idx, bit_pos |-> br.bit_pos + 1]]

\* ---- HeapNode / HeapComp ----
HeapNode(f, sym, l, r) == [freq |-> f, symbol |-> sym, left |-> l, right |-> r]

\* a comparison that breaks ties by the larger symbol
HeapCompLargerFirst(a, b) ==
    IF a.freq # b.freq THEN a.freq > b.freq ELSE WLess(a.symbol, b.symbol)

\* HeapComp(a, b): a comes after b in the min-heap
HeapComp(a, b) == IF a.freq # b.freq THEN a.freq > b.freq ELSE WLess(b.symbol, a.symbol)

\* pq.top(): the node no other node comes before
PqTop(pq) == CHOOSE a \in pq : \A b \in pq \ {a} : HeapComp(b, a)

\* the merge loop "while (pq.size() > 1)"; returns [pq, nodes]
RECURSIVE huff_merge(_, _)
huff_merge(pq, nodes) ==
    IF Cardinality(pq) <= 1 THEN [pq |-> pq, nodes |-> nodes]
    ELSE LET a == PqTop(pq)
             b == PqTop(pq \ {a})
             parent == HeapNode(a.freq + b.freq, WMin(a.symbol, b.symbol),
                                Len(nodes), Len(nodes) + 1) IN
         huff_merge((pq \ {a, b}) \cup {parent}, nodes \o <<a, b>>)

\* a DFS that refuses an inner node already at depth 31
RECURSIVE huff_lengths_below_32(_, _, _)
huff_lengths_below_32(nodes, cur, depth) ==
    IF cur.left = -1 /\ cur.right = -1
    THEN [ok |-> TRUE, lens |-> <<[symbol |-> cur.symbol, len |-> depth]>>]
    ELSE IF depth >= 31 THEN [ok |-> FALSE, lens |-> <<>>]
    ELSE LET l == huff_lengths_below_32(nodes, nodes[cur.left + 1], ToU8(depth + 1))
             r == huff_lengths_below_32(nodes, nodes[cur.right + 1], ToU8(depth + 1)) IN
         [ok |-> l.ok /\ r.ok, lens |-> l.lens \o r.lens]

\* the DFS over the merged tree: the (symbol, len) leaves below cur, or
\* ok = FALSE when an inner node sits at depth 32
RECURSIVE huff_lengths(_, _, _)
huff_lengths(nodes, cur, depth) ==
    IF cur.left = -1 /\ cur.right = -1
    THEN [ok |-> TRUE, lens |-> <<[symbol |-> cur.symbol, len |-> depth]>>]
    ELSE IF depth >= 32 THEN [ok |-> FALSE, lens |-> <<>>]
    ELSE LET l == IF cur.left # -1
                  THEN huff_lengths(nodes, nodes[cur.left + 1], ToU8(depth + 1))
                  ELSE [ok |-> TRUE, lens |-> <<>>]
             r == IF cur.right # -1
                  THEN huff_lengths(nodes, nodes[cur.right + 1], ToU8(depth + 1))
                  ELSE [ok |-> TRUE, lens |-> <<>>] IN
         [ok |-> l.ok /\ r.ok, lens |-> l.lens \o r.lens]

LenSymbolLess(a, b) == IF a.len # b.len THEN a.len < b.len ELSE WLess(a.symbol, b.symbol)

\* "Assign canonical codes" of build_canonical_table; st = [canon, code, prev_len]
RECURSIVE canonical_assign(_, _, _)
canonical_assign(lens, i, st) ==
    IF i > Len(lens) THEN st.canon
    ELSE LET le == lens[i]
             code == IF le.len # st.prev_len
                     THEN U32Shl(st.code, le.len - st.prev_len)
                     ELSE st.code IN
         canonical_assign(lens, i + 1,
             [canon |-> Append(st.canon, [symbol |-> le.symbol, code |-> code, len |-> le.len]),
              code |-> U32Inc(code), prev_len |-> le.len])

\* the walk of one code down the decode trie, creating missing nodes;
\* returns [nodes, node_idx]
RECURSIVE trie_walk(_, _, _, _)
trie_walk(nodes, node_idx, code, i) ==
    IF i < 0 THEN [nodes |-> nodes, node_idx |-> node_idx]
    ELSE LET bit == U32Bit(code, i)
             have == IF bit = 0 THEN nodes[node_idx + 1].left ELSE nodes[node_idx + 1].right IN
         IF have # -1 THEN trie_walk(nodes, have, code, i - 1)
         ELSE LET next == Len(nodes)
                  linked == [nodes EXCEPT ![node_idx + 1] =
                                IF bit = 0 THEN [@ EXCEPT !.left = next]
                                           ELSE [@ EXCEPT !.right = next]] IN
              trie_walk(Append(linked, HuffNode(-1, -1, NoSymbol)), next, code, i - 1)

\* the loop "for (const auto& ce : canon)" of build_canonical_table;
\* t = [ok, enc, enc_size, decode_nodes]
RECURSIVE canonical_insert(_, _, _)
canonical_insert(canon, i, t) ==
    IF i > Len(canon) THEN t
    ELSE LET ce == canon[i]
             size == IF WLeq(t.enc_size, ce.symbol) THEN WInc(ce.symbol) ELSE t.enc_size
             enc == (ce.symbol :> [code |-> ce.code, len |-> ce.len]) @@ t.enc
             w == trie_walk(t.decode_nodes, 0, ce.code, ce.len - 1) IN
         IF w.nodes[w.node_idx + 1].symbol # NoSymbol THEN NoTable
         ELSE canonical_insert(canon, i + 1,
                  [ok |-> TRUE, enc |-> enc, enc_size |-> size,
                   decode_nodes |-> [w.nodes EXCEPT ![w.node_idx + 1].symbol = ce.symbol]])

\* a one-symbol table whose terminal hangs on the right of the root
single_symbol_table_right(sym, max_sym) ==
    [ok |-> TRUE,
     enc |-> (sym :> [code |-> W(0, 1), len |-> 1]),
     enc_size |-> WInc(max_sym),
     decode_nodes |-> <<HuffNode(-1, 1, NoSymbol), HuffNode(-1, -1, sym)>>]

\* "Edge case: only one symbol": code 0 of length 1, a root and one leaf
single_symbol_table(sym, max_sym) ==
    [ok |-> TRUE,
     enc |-> (sym :> [code |-> U32Zero, len |-> 1]),
     enc_size |-> WInc(max_sym),
     decode_nodes |-> <<HuffNode(1, -1, NoSymbol), HuffNode(-1, -1, sym)>>]

\* the frequency of sym summed over the list, as the loop filling freqs does
RECURSIVE FreqSum(_, _, _)
FreqSum(sym_freq, sym, k) ==
    IF k > Len(sym_freq) THEN 0
    ELSE (IF sym_freq[k][1] = sym THEN sym_freq[k][2] ELSE 0) + FreqSum(sym_freq, sym, k + 1)

build_canonical_table(sym_freq) ==
    IF sym_freq = <<>> THEN NoTable
    ELSE LET used == {sym_freq[k][1] : k \in {j \in 1..Len(sym_freq) : sym_freq[j][2] # 0}} IN
    IF used = {} THEN NoTable
    ELSE LET max_sym == CHOOSE m \in used : \A u \in used : WLeq(u, m)
             freqs == [sym \in used |-> FreqSum(sym_freq, sym, 1)]
             leaves == {HeapNode(freqs[sym], sym, -1, -1) : sym \in used} IN
    \* "for (uint32_t i = 0; i < freqs.size(); ++i)" with freqs.size() = 2^32:
    \* i wraps to 0 and the loop pushes the leaves again until an allocation
    \* fails
    IF max_sym = U32Ones THEN NoTable
    ELSE IF Cardinality(leaves) = 1
    THEN single_symbol_table((CHOOSE a \in leaves : TRUE).symbol, max_sym)
    ELSE LET merged == huff_merge(leaves, <<>>)
             root == PqTop(merged.pq)
             dfs == huff_lengths(merged.nodes, root, 0) IN
    IF ~dfs.ok THEN NoTable
    ELSE LET lens == SortSeq(dfs.lens, LenSymbolLess)
             canon == canonical_assign(lens, 1,
                          [canon |-> <<>>, code |-> U32Zero, prev_len |-> lens[1].len]) IN
         canonical_insert(canon, 1,
             [ok |-> TRUE, enc |-> <<>>, enc_size |-> WInc(max_sym),
              decode_nodes |-> <<HuffNode(-1, -1, NoSymbol)>>])

EntryLess(a, b) == IF a[2] # b[2] THEN a[2] < b[2] ELSE WLess(a[1], b[1])

\* an assignment that steps the code by one and never shifts it
RECURSIVE lengths_assign_unshifted(_, _, _)
lengths_assign_unshifted(sorted, i, st) ==
    IF i > Len(sorted) THEN st.canon
    ELSE lengths_assign_unshifted(sorted, i + 1,
             [canon |-> Append(st.canon, [symbol |-> sorted[i][1], code |-> st.code,
                                          len |-> sorted[i][2]]),
              code |-> U32Inc(st.code), prev_len |-> sorted[i][2]])

\* "assign canonical codes" of build_table_from_code_lengths over the
\* sorted (symbol, len) entries; st = [canon, code, prev_len]
RECURSIVE lengths_assign(_, _, _)
lengths_assign(sorted, i, st) ==
    IF i > Len(sorted) THEN st.canon
    ELSE LET le == sorted[i]
             code == IF le[2] # st.prev_len
                     THEN U32Shl(st.code, le[2] - st.prev_len)
                     ELSE st.code IN
         lengths_assign(sorted, i + 1,
             [canon |-> Append(st.canon, [symbol |-> le[1], code |-> code, len |-> le[2]]),
              code |-> U32Inc(code), prev_len |-> le[2]])

\* the loop "for (const auto& ce : canon)" of build_table_from_code_lengths
RECURSIVE lengths_insert(_, _, _)
lengths_insert(canon, i, t) ==
    IF i > Len(canon) THEN t
    ELSE LET ce == canon[i]
             enc == (ce.symbol :> [code |-> ce.code, len |-> ce.len]) @@ t.enc
             w == trie_walk(t.decode_nodes, 0, ce.code, ce.len - 1) IN
         IF w.nodes[w.node_idx + 1].symbol # NoSymbol THEN NoTable
         ELSE lengths_insert(canon, i + 1,
                  [ok |-> TRUE, enc |-> enc, enc_size |-> t.enc_size,
                   decode_nodes |-> [w.nodes EXCEPT ![w.node_idx + 1].symbol = ce.symbol]])

build_table_from_code_lengths(entries) ==
    IF entries = <<>> THEN NoTable
    ELSE IF \E k \in 1..Len(entries) : entries[k][2] = 0 \/ entries[k][2] > 32 THEN NoTable
    ELSE LET sorted == SortSeq(entries, EntryLess)
             canon == lengths_assign(sorted, 1,
                          [canon |-> <<>>, code |-> U32Zero, prev_len |-> sorted[1][2]])
             syms == {entries[k][1] : k \in 1..Len(entries)}
             max_sym == CHOOSE m \in syms : \A u \in syms : WLeq(u, m) IN
         lengths_insert(canon, 1,
             [ok |-> TRUE, enc |-> <<>>, enc_size |-> U32Inc(max_sym),
              decode_nodes |-> <<HuffNode(-1, -1, NoSymbol)>>])

\* What a call of build_table_from_code_lengths can end in: "ok" with the
\* table, "error" (it throws) or "crash".  "t.enc.assign(max_sym + 1, {})"
\* adds in uint32_t, so with the symbol 0xFFFFFFFF the map gets 0 entries and
\* the first "t.enc[ce.symbol] = ..." already writes outside it; the write
\* either ends the process or goes unnoticed.
table_outcomes(entries, t) ==
    IF /\ entries # <<>>
       /\ \A k \in 1..Len(entries) : entries[k][2] \in 1..32
       /\ \E k \in 1..Len(entries) : entries[k][1] = U32Ones
    THEN {[status |-> "crash", table |-> NoTable],
          [status |-> IF t.ok THEN "ok" ELSE "error", table |-> t]}
    ELSE {[status |-> IF t.ok THEN "ok" ELSE "error", table |-> t]}

\* the loop "for (uint32_t s : symbols)" of huff_encode
RECURSIVE huff_encode_from(_, _, _, _)
huff_encode_from(symbols, k, t, bw) ==
    IF k > Len(symbols) THEN [ok |-> TRUE, bw |-> bw]
    ELSE LET sym == symbols[k] IN
         IF WLeq(t.enc_size, sym) \/ sym \notin DOMAIN t.enc THEN [ok |-> FALSE, bw |-> bw]
         ELSE huff_encode_from(symbols, k + 1, t, write_bits(bw, t.enc[sym].code, t.enc[sym].len))

huff_encode(symbols) ==
    IF symbols = <<>> THEN [ok |-> FALSE, table |-> NoTable, bits |-> <<>>]
    ELSE LET t == build_canonical_table(build_symbol_frequencies(symbols)) IN
         IF ~t.ok THEN [ok |-> FALSE, table |-> NoTable, bits |-> <<>>]
         ELSE LET w == huff_encode_from(symbols, 1, t, BitWriterInit) IN
              IF ~w.ok THEN [ok |-> FALSE, table |-> NoTable, bits |-> <<>>]
              ELSE [ok |-> TRUE, table |-> t, bits |-> flush(w.bw).data]

\* the inner "while (true)" of huff_decode: one symbol, from node
RECURSIVE huff_decode_symbol(_, _, _, _)
huff_decode_symbol(bits, t, node, br) ==
    IF node < 0 \/ node >= Len(t.decode_nodes) THEN [ok |-> FALSE, symbol |-> U32Zero, br |-> br]
    ELSE LET nd == t.decode_nodes[node + 1] IN
         IF nd.symbol # NoSymbol THEN [ok |-> TRUE, symbol |-> nd.symbol, br |-> br]
         ELSE LET b == read_bit(bits, br) IN
              IF ~b.ok THEN [ok |-> FALSE, symbol |-> U32Zero, br |-> br]
              ELSE LET next == IF b.bit = 1 THEN nd.right ELSE nd.left IN
                   IF next = -1 THEN [ok |-> FALSE, symbol |-> U32Zero, br |-> b.br]
                   ELSE huff_decode_symbol(bits, t, next, b.br)

\* the outer loop, with left iterations to go
RECURSIVE huff_decode_from(_, _, _, _, _)
huff_decode_from(bits, t, left, br, out) ==
    IF left = 0 THEN [ok |-> TRUE, symbols |-> out, br |-> br]
    ELSE LET d == huff_decode_symbol(bits, t, 0, br) IN
         IF ~d.ok THEN [ok |-> FALSE, symbols |-> out, br |-> d.br]
         ELSE huff_decode_from(bits, t, left - 1, d.br, Append(out, d.symbol))

huff_decode(bits, t, symbol_count) ==
    huff_decode_from(bits, t, symbol_count, BitReaderInit, <<>>)

(***************************************************************************)
(* entropy/bitstream.hpp, entropy/bitstream.cpp, format/mcodec_format.hpp  *)
(***************************************************************************)
kMCodecHeaderBytes == 32
MagicBytes == <<77, 67, 68, 67>>

\* ByteWriter::write_u8 / write_u16_le / write_u32_le
write_u8(v) == <<v>>
write_u16_le(v) == <<v % U8Mod, (v \div U8Mod) % U8Mod>>
write_u32_le(u) == write_u16_le(u.lo) \o write_u16_le(u.hi)

\* read_u16_le_at / read_u32_le_at (off is 0-based, inside the buffer)
\* a reader that drops the high byte
read_u16_le_at_low_byte(b, off) == b[off + 1]

read_u16_le_at(b, off) == b[off + 1] + b[off + 2] * U8Mod
read_u32_le_at(b, off) == W(b[off + 3] + b[off + 4] * U8Mod, b[off + 1] + b[off + 2] * U8Mod)

write_bitstream_header(im, flags, block_size, quality) ==
    MagicBytes
    \o write_u16_le(1)
    \o write_u16_le(kMCodecHeaderBytes)
    \o write_u32_le(ToU32(im.width))
    \o write_u32_le(ToU32(im.height))
    \o write_u16_le(ToU16(im.channels))
    \o write_u16_le(ToU16(im.bits_allocated))
    \o write_u16_le(ToU16(im.bits_stored))
    \o write_u8(IF im.is_signed THEN 1 ELSE 0)
    \o write_u8(flags)
    \o write_u16_le(block_size)
    \o write_u16_le(quality)
    \o write_u32_le(U32Zero)

NoHeader == [ok |-> FALSE]

\* a reader that accepts any four leading bytes
magic_unchecked(magic) == TRUE

\* "hdr.magic[0] == 'M' && hdr.magic[1] == 'C' && hdr.magic[2] == 'D' && hdr.magic[3] == 'C'"
magic_matches(magic) == magic = MagicBytes

read_bitstream_header(bytes) ==
    IF Len(bytes) < kMCodecHeaderBytes THEN NoHeader
    ELSE LET hdr == [ok |-> TRUE,
                     magic |-> SubSeq(bytes, 1, 4),
                     version |-> read_u16_le_at(bytes, 4),
                     header_bytes |-> read_u16_le_at(bytes, 6),
                     width |-> read_u32_le_at(bytes, 8),
                     height |-> read_u32_le_at(bytes, 12),
                     channels |-> read_u16_le_at(bytes, 16),
                     bits_allocated |-> read_u16_le_at(bytes, 18),
                     bits_stored |-> read_u16_le_at(bytes, 20),
                     is_signed |-> bytes[23],
                     flags |-> bytes[24],
                     block_size |-> read_u16_le_at(bytes, 24),
                     quality |-> read_u16_le_at(bytes, 26),
                     payload_bytes |-> read_u32_le_at(bytes, 28)] IN
         IF ~magic_matches(hdr.magic) THEN NoHeader
         ELSE IF hdr.version # 1 THEN NoHeader
         ELSE IF hdr.header_bytes < kMCodecHeaderBytes THEN NoHeader
         ELSE IF Len(bytes) < hdr.header_bytes THEN NoHeader
         ELSE hdr

(***************************************************************************)
(* codec/encoder.cpp                                                       *)
(*                                                                         *)
(* The result carries, next to the returned bytes, the locals of the call  *)
(* that the properties below speak about.                                  *)
(***************************************************************************)
EncodeError ==
    [ok |-> FALSE, bytes |-> <<>>, img |-> <<>>, level_shift_applied |-> FALSE,
     qcoeff |-> <<>>, blocks |-> 0, symbols |-> <<>>, table_entries |-> <<>>,
     huff_encode_bits |-> <<>>, payload_bytes |-> U32Zero]

\* the symbols of a set in ascending order, each with its code length
RECURSIVE AscendingEntries(_, _)
AscendingEntries(table, syms) ==
    IF syms = {} THEN <<>>
    ELSE LET m == CHOOSE a \in syms : \A b \in syms : WLeq(a, b) IN
         <<<<m, table.enc[m].len>>>> \o AscendingEntries(table, syms \ {m})

\* "Collect used symbols (freq>0) with their code lengths", sorted (len, symbol)
collect_table_entries(table) ==
    SortSeq(AscendingEntries(table,
                {sym \in DOMAIN table.enc : WLess(sym, table.enc_size) /\ table.enc[sym].len > 0}),
            EntryLess)

\* an encoder that leaves the placeholder of payload_bytes in the header
patch_payload_bytes_skipped(bytes, payload_bytes) == bytes

\* "patch payload_bytes (at fixed offset in header)": bytes[28..31]
patch_payload_bytes(bytes, payload_bytes) ==
    [k \in 1..Len(bytes) |->
        IF k = 29 THEN payload_bytes.lo % U8Mod
        ELSE IF k = 30 THEN (payload_bytes.lo \div U8Mod) % U8Mod
        ELSE IF k = 31 THEN payload_bytes.hi % U8Mod
        ELSE IF k = 32 THEN (payload_bytes.hi \div U8Mod) % U8Mod
        ELSE bytes[k]]

RECURSIVE write_table_entries(_)
write_table_entries(entries) ==
    IF entries = <<>> THEN <<>>
    ELSE write_u32_le(Head(entries)[1]) \o write_u8(Head(entries)[2])
         \o write_table_entries(Tail(entries))

\* "int block_size = 8"
kEncoderBlockSize == 8

\* The body of encode_to_mcodec, one operator per step; each step hands the
\* locals computed so far (the record c) and its own result to the next.

\* the size check after the patch, and the return
encode_return(c, table_entries, payload_bytes, bytes) ==
    IF OfNat(Len(bytes)) # U32Add(OfNat(kMCodecHeaderBytes), payload_bytes) THEN EncodeError
    ELSE [ok |-> TRUE, bytes |-> bytes, img |-> c.img,
          level_shift_applied |-> c.level_shift_applied,
          qcoeff |-> c.qcoeff, blocks |-> c.blocks,
          symbols |-> c.symbols, table_entries |-> table_entries,
          huff_encode_bits |-> c.bits, payload_bytes |-> payload_bytes]

\* "patch payload_bytes (at fixed offset in header)"
encode_patch(c, table_entries, payload_bytes, written) ==
    IF Len(written) < kMCodecHeaderBytes THEN EncodeError
    ELSE encode_return(c, table_entries, payload_bytes,
                       patch_payload_bytes(written, payload_bytes))

\* header, Huffman table section and Huffman payload bits, in this order
encode_write(c, table_entries) ==
    IF table_entries = <<>> THEN EncodeError
    ELSE encode_patch(c, table_entries,
             \* huff_table_section_bytes + huff_payload_bytes
             U32Add(OfNat(4 + 4 + Len(table_entries) * (4 + 1)), OfNat(Len(c.bits))),
             write_bitstream_header(c.img, IF c.level_shift_applied THEN 1 ELSE 0,
                                    ToU16(kEncoderBlockSize), ToU16(c.quality))
                 \o write_u32_le(OfNat(Len(c.symbols)))
                 \o write_u32_le(OfNat(Len(table_entries)))
                 \o write_table_entries(table_entries)
                 \o c.bits)

\* after huff_encode
encode_entropy(c, symbols, encoded) ==
    IF ~encoded.ok THEN EncodeError
    ELSE encode_write([img |-> c.img, level_shift_applied |-> c.level_shift_applied,
                       quality |-> c.quality, blocks |-> c.blocks, qcoeff |-> c.qcoeff,
                       symbols |-> symbols, bits |-> encoded.bits],
                      collect_table_entries(encoded.table))

\* after pack_rle_symbols
encode_symbols(c, symbols) == encode_entropy(c, symbols, huff_encode(symbols))

\* after rle_encode_zeros
encode_rle(c, rle) ==
    IF ~rle.ok THEN EncodeError ELSE encode_symbols(c, pack_rle_symbols(rle.rle))

\* after zigzag_scan_blocks
encode_zigzag(c, zz) ==
    IF ~zz.ok THEN EncodeError
    ELSE encode_rle(c, rle_encode_zeros(zz.seq, kEncoderBlockSize))

\* after quantize
encode_quantized(c, quant) ==
    IF ~quant.ok THEN EncodeError
    ELSE encode_zigzag([img |-> c.img, level_shift_applied |-> c.level_shift_applied,
                        quality |-> c.quality, blocks |-> c.blocks,
                        qcoeff |-> quant.qcoeff],
                       zigzag_scan_blocks(quant.qcoeff, kEncoderBlockSize))

\* after dct2d_blocks
encode_dct(c, dct) ==
    IF ~dct.ok THEN EncodeError
    ELSE encode_quantized(c, quantize(dct.coeff, kEncoderBlockSize, c.quality))

\* after tile_to_blocks
encode_tiled(c, tiled) ==
    IF ~tiled.ok THEN EncodeError
    ELSE encode_dct(c, dct2d_blocks(tiled.padded, kEncoderBlockSize))

\* after make_grid
encode_grid(img, level_shift_applied, quality, grid) ==
    IF ~grid.ok THEN EncodeError
    ELSE encode_tiled([img |-> img, level_shift_applied |-> level_shift_applied,
                       quality |-> quality, blocks |-> grid.blocks_x * grid.blocks_y],
                      tile_to_blocks(img, grid))

\* after apply_level_shift(img) on the working copy
encode_shifted(level_shift_applied, quality, shifted) ==
    IF ~shifted.ok THEN EncodeError
    ELSE encode_grid(shifted.img, level_shift_applied, quality,
                     make_grid(shifted.img.width, shifted.img.height, kEncoderBlockSize))

encode_to_mcodec(im, quality) ==
    IF im.channels # 1 THEN EncodeError
    ELSE IF im.width <= 0 \/ im.height <= 0 THEN EncodeError
    ELSE IF Len(im.pixels) # im.width * im.height THEN EncodeError
    ELSE encode_shifted(~im.is_signed, quality, apply_level_shift(im))

(***************************************************************************)
(* codec/decoder.cpp                                                       *)
(*                                                                         *)
(* status is "ok" (an image is returned), "error" (an exception leaves the *)
(* call) or "undefined" (the call constructs a vector from an iterator     *)
(* range that ends before it starts).                                      *)
(***************************************************************************)
DecodeResult(st, img, inv, qc, nblocks) ==
    [status |-> st, img |-> img, inverse_applied |-> inv, qcoeff |-> qc, blocks |-> nblocks,
     undefined |-> FALSE]

DecodeError == DecodeResult("error", <<>>, FALSE, <<>>, 0)
DecodeUndefined == DecodeResult("undefined", <<>>, FALSE, <<>>, 0)

\* the table-entry loop of the decoder: the entries read from offset pos
\* of the payload, or ok = FALSE on a length of 0 or above 32
RECURSIVE read_table_entries(_, _, _)
read_table_entries(payload, pos, left) ==
    IF left = 0 THEN [ok |-> TRUE, entries |-> <<>>]
    ELSE LET sym == read_u32_le_at(payload, pos)
             len == payload[pos + 5] IN
         IF len = 0 \/ len > 32 THEN [ok |-> FALSE, entries |-> <<>>]
         ELSE LET rest == read_table_entries(payload, pos + 5, left - 1) IN
              [ok |-> rest.ok, entries |-> <<<<sym, len>>>> \o rest.entries]

\* a decoder that takes the need for the inverse shift from is_signed
flag_level_shift_from_sign(hdr) == hdr.is_signed = 0

\* "const bool level_shift_applied = (hdr.flags & 0x01u) != 0"
flag_level_shift(hdr) == hdr.flags % 2 # 0

\* The body of decode_from_mcodec, one operator per step; each step hands
\* the locals computed so far (the record d) and its own result to the next.

\* the final size check, and the return
decode_return(d, unshifted) ==
    IF ~unshifted.ok THEN DecodeError
    ELSE IF Len(unshifted.img.pixels)
            # unshifted.img.width * unshifted.img.height * unshifted.img.channels
         THEN DecodeError
    ELSE DecodeResult("ok", unshifted.img, d.level_shift_applied, d.qcoeff, d.blocks)

\* after untile_from_blocks: "if (level_shift_applied) inverse_level_shift(img)"
decode_untiled(d, untiled) ==
    IF ~untiled.ok THEN DecodeError
    ELSE decode_return(d, IF d.level_shift_applied
                          THEN inverse_level_shift(untiled.img)
                          ELSE [ok |-> TRUE, img |-> untiled.img])

\* the image the decoder fills in from the header
header_image(hdr) ==
    Image(ToI32(hdr.width), ToI32(hdr.height), hdr.channels,
          hdr.bits_stored, hdr.bits_allocated, hdr.is_signed # 0,
          IF hdr.is_signed # 0 THEN S16
          ELSE IF hdr.bits_allocated <= 8 THEN U8 ELSE U16,
          <<>>)

\* after idct2d_blocks
decode_idct(d, idct) ==
    IF ~idct.ok THEN DecodeError
    ELSE decode_untiled(d, untile_from_blocks(header_image(d.hdr), d.grid, idct.blocks))

\* after dequantize
decode_dequantized(d, deq) ==
    IF ~deq.ok THEN DecodeError
    ELSE decode_idct(d, idct2d_blocks(deq.coeff, d.hdr.block_size))

\* after inverse_zigzag_blocks
decode_unzigzag(hdr, grid, unzz) ==
    IF ~unzz.ok THEN DecodeError
    ELSE decode_dequantized([hdr |-> hdr, grid |-> grid, qcoeff |-> unzz.qcoeff,
                             blocks |-> grid.blocks_x * grid.blocks_y,
                             level_shift_applied |-> flag_level_shift(hdr)],
                            dequantize(unzz.qcoeff, hdr.block_size, hdr.quality))

\* after rle_decode_zeros
decode_rle(hdr, grid, seq) ==
    IF ~seq.ok THEN DecodeError
    ELSE decode_unzigzag(hdr, grid, inverse_zigzag_blocks(seq.seq, hdr.block_size))

\* after make_grid: total_coeffs = blocks_x * blocks_y * coeffs_per_block, in size_t
decode_grid(hdr, rle, grid) ==
    IF ~grid.ok THEN DecodeError
    ELSE decode_rle(hdr, grid,
             rle_decode_zeros(rle, hdr.block_size,
                              WScale(OfNat(grid.blocks_x * grid.blocks_y),
                                     hdr.block_size * hdr.block_size)))

\* after huff_decode
decode_symbols(hdr, decoded) ==
    IF ~decoded.ok THEN DecodeError
    ELSE decode_grid(hdr, unpack_rle_symbols(decoded.symbols),
                     make_grid(ToI32(hdr.width), ToI32(hdr.height), hdr.block_size))

\* after build_table_from_code_lengths
decode_table(hdr, huff_bits, symbol_count, table) ==
    IF ~table.ok THEN DecodeError
    ELSE decode_symbols(hdr, huff_decode(huff_bits, table, LoopCount(symbol_count)))

\* after the table-entry loop
decode_entries(hdr, payload, symbol_count, used, table_read) ==
    IF ~table_read.ok THEN DecodeError
    ELSE decode_table(hdr, SubSeq(payload, 8 + used * 5 + 1, Len(payload)), symbol_count,
                      build_table_from_code_lengths(table_read.entries))

\* after the two counts are read
decode_counts(hdr, payload, symbol_count, used_symbol_count) ==
    IF used_symbol_count = U32Zero THEN DecodeError
    \* remaining() < used_symbol_count * 5, in size_t
    ELSE IF used_symbol_count.hi > 0 \/ Len(payload) - 8 < used_symbol_count.lo * (4 + 1)
         THEN DecodeError
    ELSE decode_entries(hdr, payload, symbol_count, used_symbol_count.lo,
                        read_table_entries(payload, 8, used_symbol_count.lo))

\* decode_from_mcodec from "ByteReader r(...)" on, given the header and the
\* payload slice
decode_payload(hdr, payload) ==
    IF Len(payload) < 8 THEN DecodeError
    ELSE decode_counts(hdr, payload, read_u32_le_at(payload, 0), read_u32_le_at(payload, 4))

\* hdr.header_bytes + hdr.payload_bytes: uint16_t + uint32_t, computed in 32 bits
declared_end(hdr) == U32Add(OfNat(hdr.header_bytes), hdr.payload_bytes)

\* the length check and the payload slice [header_bytes, end)
decode_slice(bytes, hdr, end) ==
    IF NatLess(Len(bytes), end) THEN DecodeError
    ELSE IF ToI32(end) < hdr.header_bytes THEN DecodeUndefined
    ELSE decode_payload(hdr, SubSeq(bytes, hdr.header_bytes + 1, ToI32(end)))

\* after read_bitstream_header
decode_header(bytes, hdr) ==
    IF ~hdr.ok THEN DecodeError ELSE decode_slice(bytes, hdr, declared_end(hdr))

decode_from_mcodec(bytes) ==
    IF Len(bytes) < kMCodecHeaderBytes THEN DecodeError
    ELSE decode_header(bytes, read_bitstream_header(bytes))

(***************************************************************************)
(* The codec as a state machine: a caller encodes an image, the container  *)
(* travels over a channel that may alter it once, and a caller decodes     *)
(* what arrives.                                                           *)
(***************************************************************************)
VARIABLES pc, im, quality, enc, wire, tamper, dec,
          rle_bs, rle_in, rle_pairs, rle_out,
          unit_in, unit_mid, unit_out

vars == <<pc, im, quality, enc, wire, tamper, dec, rle_bs, rle_in, rle_pairs, rle_out,
          unit_in, unit_mid, unit_out>>
codec_vars == <<im, quality, enc, wire, tamper, dec>>
rle_vars == <<rle_bs, rle_in, rle_pairs, rle_out>>
\* the arguments, the intermediate value and the result of the calls made on
\* one stage of the codec alone
unit_vars == <<unit_in, unit_mid, unit_out>>

\* ---- inputs of encode_to_mcodec ----
Descriptors ==
    { [bs |-> 8, ba |-> 8, sg |-> FALSE],
      [bs |-> 12, ba |-> 16, sg |-> TRUE],
      [bs |-> 16, ba |-> 16, sg |-> FALSE] }

TypeOf(d) == IF d.sg THEN S16 ELSE IF d.ba <= 8 THEN U8 ELSE U16

\* the sample that the level shift maps to 0, and an extreme sample
BlankValue(d) == IF d.sg THEN 0 ELSE Pow2(d.bs - 1)
ExtremeValue(d) == IF d.sg THEN -Pow2(d.bs - 1) ELSE Pow2(d.bs) - 1
PixelValues(d) == {BlankValue(d), ExtremeValue(d)}

\* 8 x 8k images whose k chunks of 64 samples are each constant
ChunkImages ==
    { Image(8, 8 * k, 1, d.bs, d.ba, d.sg, TypeOf(d),
            Flatten([b \in 1..k |-> Fill(64, cs[b])])) :
        <<d, k, cs>> \in UNION { UNION { { <<d, k, cs>> : cs \in [1..k -> PixelValues(d)] } :
                                         k \in 1..MaxChunks } : d \in Descriptors } }

\* the 16 x 16 images of the blank sample
BlankImages ==
    { Image(16, 16, 1, d.bs, d.ba, d.sg, TypeOf(d), Fill(256, BlankValue(d))) :
        d \in Descriptors }

ValidImages == ChunkImages \cup BlankImages

\* images that break one precondition of encode_to_mcodec
InvalidImages ==
    LET px == Fill(64, 128) IN
    { Image(8, 8, 3, 8, 8, FALSE, U8, px),
      Image(8, 8, 0, 8, 8, FALSE, U8, px),
      Image(0, 8, 1, 8, 8, FALSE, U8, <<>>),
      Image(-8, 8, 1, 8, 8, FALSE, U8, px),
      Image(8, 0, 1, 8, 8, FALSE, U8, <<>>),
      Image(8, 8, 1, 8, 8, FALSE, U8, Fill(63, 128)),
      Image(8, 8, 1, 8, 8, FALSE, U8, Fill(65, 128)) }

Images == ValidImages \cup InvalidImages
Qualities == {0, 1, 50, 100, 101}

\* ---- alterations of the container ----
TamperValues == {0, 2, 7, 16, 51, 255}
PayloadBytesValues == {W(65535, 65535), W(65535, 65504), W(32767, 65535)}
LengthValues == {0, 33}
NoTamper == [kind |-> "none", off |-> 0, val |-> 0]

Init ==
    /\ pc = "start"
    /\ im = <<>>
    /\ quality = 0
    /\ enc = EncodeError
    /\ wire = <<>>
    /\ tamper = NoTamper
    /\ dec = DecodeError
    /\ rle_bs = 0
    /\ rle_in = <<>>
    /\ rle_pairs = [ok |-> FALSE, rle |-> <<>>]
    /\ rle_out = [ok |-> FALSE, seq |-> <<>>]
    /\ unit_in = <<>>
    /\ unit_mid = <<>>
    /\ unit_out = <<>>

\* a call encode_to_mcodec(img, q)
Encode(img, q) ==
    /\ pc = "start"
    /\ im' = img
    /\ quality' = q
    /\ enc' = encode_to_mcodec(img, q)
    /\ wire' = enc'.bytes
    /\ pc' = "encoded"
    /\ UNCHANGED <<tamper, dec>>
    /\ UNCHANGED rle_vars
    /\ UNCHANGED unit_vars

\* one byte of the header takes another value
TamperByte(off, val) ==
    /\ pc = "encoded"
    /\ enc.ok
    /\ wire[off + 1] # val
    /\ wire' = [wire EXCEPT ![off + 1] = val]
    /\ tamper' = [kind |-> "byte", off |-> off, val |-> val]
    /\ pc' = "tampered"
    /\ UNCHANGED <<im, quality, enc, dec>>
    /\ UNCHANGED rle_vars
    /\ UNCHANGED unit_vars

\* the last byte is lost
Truncate ==
    /\ pc = "encoded"
    /\ enc.ok
    /\ wire' = SubSeq(wire, 1, Len(wire) - 1)
    /\ tamper' = [kind |-> "truncate", off |-> Len(wire) - 1, val |-> 0]
    /\ pc' = "tampered"
    /\ UNCHANGED <<im, quality, enc, dec>>
    /\ UNCHANGED rle_vars
    /\ UNCHANGED unit_vars

\* the four magic bytes are zeroed
ZeroMagic ==
    /\ pc = "encoded"
    /\ enc.ok
    /\ wire' = [k \in 1..Len(wire) |-> IF k <= 4 THEN 0 ELSE wire[k]]
    /\ tamper' = [kind |-> "magic", off |-> 0, val |-> 0]
    /\ pc' = "tampered"
    /\ UNCHANGED <<im, quality, enc, dec>>
    /\ UNCHANGED rle_vars
    /\ UNCHANGED unit_vars

\* the length byte of table entry i (0-based) is overwritten
CorruptLength(i, val) ==
    /\ pc = "encoded"
    /\ enc.ok
    /\ i < Len(enc.table_entries)
    /\ LET off == kMCodecHeaderBytes + 8 + 5 * i + 4 IN
       /\ wire' = [wire EXCEPT ![off + 1] = val]
       /\ tamper' = [kind |-> "length", off |-> off, val |-> val]
    /\ pc' = "tampered"
    /\ UNCHANGED <<im, quality, enc, dec>>
    /\ UNCHANGED rle_vars
    /\ UNCHANGED unit_vars

\* the payload_bytes field is overwritten
TamperPayloadBytes(u) ==
    /\ pc = "encoded"
    /\ enc.ok
    /\ wire' = [k \in 1..Len(wire) |->
                    IF k \in 29..32 THEN write_u32_le(u)[k - 28] ELSE wire[k]]
    /\ tamper' = [kind |-> "payload_bytes", off |-> 28, val |-> u]
    /\ pc' = "tampered"
    /\ UNCHANGED <<im, quality, enc, dec>>
    /\ UNCHANGED rle_vars
    /\ UNCHANGED unit_vars

\* what a call decode_from_mcodec(bytes) can do: a call that runs into
\* undefined behaviour either throws from the vector constructor or crashes
decode_outcomes(r) ==
    IF r.status = "undefined"
    THEN {[r EXCEPT !.status = "error", !.undefined = TRUE],
          [r EXCEPT !.status = "crash", !.undefined = TRUE]}
    ELSE {r}

DecodeOutcomes(bytes) == decode_outcomes(decode_from_mcodec(bytes))

\* a call decode_from_mcodec(wire)
Decode ==
    /\ pc \in {"encoded", "tampered"}
    /\ enc.ok
    /\ dec' \in DecodeOutcomes(wire)
    /\ pc' = "decoded"
    /\ UNCHANGED <<im, quality, enc, wire, tamper>>
    /\ UNCHANGED rle_vars
    /\ UNCHANGED unit_vars

Next ==
    \/ \E img \in Images, q \in Qualities : Encode(img, q)
    \/ \E off \in 0..(kMCodecHeaderBytes - 1), val \in TamperValues : TamperByte(off, val)
    \/ Truncate
    \/ ZeroMagic
    \/ \E i \in 0..3, val \in LengthValues : CorruptLength(i, val)
    \/ \E u \in PayloadBytesValues : TamperPayloadBytes(u)
    \/ Decode

Spec == Init /\ [][Next]_vars

(***************************************************************************)
(* The zero-run coder on its own: a buffer of whole blocks is encoded and  *)
(* the pairs are decoded again.                                            *)
(***************************************************************************)
\* the positions of a block of n coefficients that may be non-zero: the DC,
\* the first AC, the last AC but one and the last AC
RlePositions(n) == {1, 2, n - 1, n}
RleValueAt(n, k) ==
    IF k = 1 THEN 5 ELSE IF k = 2 THEN -3 ELSE IF k = n THEN -1 ELSE 7

\* blocks with at most MaxNonZero non-zero coefficients, and the block
\* without a zero
RleBlocks(n) ==
    { [k \in 1..n |-> IF k \in S THEN RleValueAt(n, k) ELSE 0] :
        S \in { T \in SUBSET RlePositions(n) : Cardinality(T) <= MaxNonZero } }
    \cup { [k \in 1..n |-> RleValueAt(n, k)] }

\* buffers of at most MaxRleBlocks such blocks
RleInputs(bsz) ==
    { Flatten(bl) : bl \in UNION { [1..m -> RleBlocks(bsz * bsz)] : m \in 0..MaxRleBlocks } }

InitRle ==
    /\ pc = "rle_input"
    /\ im = <<>>
    /\ quality = 0
    /\ enc = EncodeError
    /\ wire = <<>>
    /\ tamper = NoTamper
    /\ dec = DecodeError
    /\ rle_bs \in {8, 16}
    /\ rle_in \in RleInputs(rle_bs)
    /\ rle_pairs = [ok |-> FALSE, rle |-> <<>>]
    /\ rle_out = [ok |-> FALSE, seq |-> <<>>]
    /\ unit_in = <<>>
    /\ unit_mid = <<>>
    /\ unit_out = <<>>

\* a call rle_encode_zeros(rle_in, rle_bs, rle_out)
RleEncode ==
    /\ pc = "rle_input"
    /\ rle_pairs' = rle_encode_zeros(rle_in, rle_bs)
    /\ pc' = "rle_encoded"
    /\ UNCHANGED <<rle_bs, rle_in, rle_out>>
    /\ UNCHANGED codec_vars
    /\ UNCHANGED unit_vars

\* a call rle_decode_zeros(pairs, rle_bs, rle_in.size(), seq_out)
RleDecode ==
    /\ pc = "rle_encoded"
    /\ rle_pairs.ok
    /\ rle_out' = rle_decode_zeros(rle_pairs.rle, rle_bs, OfNat(Len(rle_in)))
    /\ pc' = "rle_decoded"
    /\ UNCHANGED <<rle_bs, rle_in, rle_pairs>>
    /\ UNCHANGED codec_vars
    /\ UNCHANGED unit_vars

NextRle == RleEncode \/ RleDecode

SpecRle == InitRle /\ [][NextRle]_vars

(***************************************************************************)
(* Calls of one stage of the codec on its own                              *)
(***************************************************************************)
CodecIdle ==
    /\ im = <<>>
    /\ quality = 0
    /\ enc = EncodeError
    /\ wire = <<>>
    /\ tamper = NoTamper
    /\ dec = DecodeError

RleIdle ==
    /\ rle_bs = 0
    /\ rle_in = <<>>
    /\ rle_pairs = [ok |-> FALSE, rle |-> <<>>]
    /\ rle_out = [ok |-> FALSE, seq |-> <<>>]

\* ---- huff_encode, then huff_decode (HuffmanSelfTest) ----
\* 32-bit symbols: small ones, packed (value, run) pairs, one above 2^31 and
\* the two largest
HuffSymbols ==
    {W(0, 0), W(0, 3), W(62, 0), W(32768, 0), W(65535, 65534), W(65535, 65535)}

\* symbol streams of 1 to MaxSymbols symbols
HuffInputs == UNION { [1..n -> HuffSymbols] : n \in 1..MaxSymbols }

InitHuff ==
    /\ pc = "huff_input"
    /\ CodecIdle
    /\ RleIdle
    /\ unit_in \in HuffInputs
    /\ unit_mid = <<>>
    /\ unit_out = <<>>

\* auto encoded = huff_encode(symbols)
HuffEncode ==
    /\ pc = "huff_input"
    /\ unit_mid' = huff_encode(unit_in)
    /\ pc' = "huff_encoded"
    /\ UNCHANGED <<unit_in, unit_out>>
    /\ UNCHANGED codec_vars
    /\ UNCHANGED rle_vars

\* huff_decode(encoded.second, table, symbols.size(), decoded)
HuffDecode ==
    /\ pc = "huff_encoded"
    /\ unit_mid.ok
    /\ unit_out' = huff_decode(unit_mid.bits, unit_mid.table, Len(unit_in))
    /\ pc' = "huff_decoded"
    /\ UNCHANGED <<unit_in, unit_mid>>
    /\ UNCHANGED codec_vars
    /\ UNCHANGED rle_vars

NextHuff == HuffEncode \/ HuffDecode

SpecHuff == InitHuff /\ [][NextHuff]_vars

\* ---- build_canonical_table on one histogram supplied in two orders ----
CanonSymbols == {W(0, 0), W(0, 1), W(0, 7), W(62, 0)}
CanonFreqs == {1, 2, 3}

\* the sequences that list every element of the set S once
Orderings(S) ==
    { f \in [1..Cardinality(S) -> S] : \A i, j \in 1..Cardinality(S) : i # j => f[i] # f[j] }

\* histograms of 1 to MaxSymbols symbols, as sets of (symbol, frequency) pairs
Histograms ==
    UNION { { { <<sym, h[sym]>> : sym \in S } : h \in [S -> CanonFreqs] } :
            S \in { T \in SUBSET CanonSymbols : T # {} /\ Cardinality(T) <= MaxSymbols } }

\* the symbol stream that holds sym_freq[k][1] sym_freq[k][2] times, in the
\* order of the list
RECURSIVE StreamOf(_, _)
StreamOf(sym_freq, k) ==
    IF k > Len(sym_freq) THEN <<>>
    ELSE Fill(sym_freq[k][2], sym_freq[k][1]) \o StreamOf(sym_freq, k + 1)

InitCanon ==
    /\ pc = "canon_input"
    /\ CodecIdle
    /\ RleIdle
    /\ \E h \in Histograms :
           unit_in \in { <<SortedBySymbol(h), o>> : o \in Orderings(h) }
    /\ unit_mid = <<>>
    /\ unit_out = <<>>

\* build_canonical_table on the list sorted by symbol
CanonBuild ==
    /\ pc = "canon_input"
    /\ unit_mid' = build_canonical_table(unit_in[1])
    /\ pc' = "canon_built"
    /\ UNCHANGED <<unit_in, unit_out>>
    /\ UNCHANGED codec_vars
    /\ UNCHANGED rle_vars

\* a second build_canonical_table, on the same pairs in another order
CanonRebuild ==
    /\ pc = "canon_built"
    /\ unit_out' = build_canonical_table(unit_in[2])
    /\ pc' = "canon_rebuilt"
    /\ UNCHANGED <<unit_in, unit_mid>>
    /\ UNCHANGED codec_vars
    /\ UNCHANGED rle_vars

\* a second build through huff_encode, on a symbol stream with this
\* histogram whose symbols appear in the other order
CanonStream ==
    /\ pc = "canon_built"
    /\ unit_out' = huff_encode(StreamOf(unit_in[2], 1)).table
    /\ pc' = "canon_streamed"
    /\ UNCHANGED <<unit_in, unit_mid>>
    /\ UNCHANGED codec_vars
    /\ UNCHANGED rle_vars

NextCanon == CanonBuild \/ CanonRebuild \/ CanonStream

SpecCanon == InitCanon /\ [][NextCanon]_vars

\* ---- zigzag_scan_blocks, then inverse_zigzag_blocks (ZigzagSelfTest) ----
\* blocks of n int16 values: the ramp src[i] = i of the self-test, the ramp
\* shifted and negated, the two extreme values alternating, and zeros
ZigzagBlocks(n) ==
    { [k \in 1..n |-> k - 1],
      [k \in 1..n |-> k - 1 + 1000],
      [k \in 1..n |-> -(k - 1)],
      [k \in 1..n |-> IF k % 2 = 1 THEN -I16Max - 1 ELSE I16Max],
      Fill(n, 0) }

\* buffers of 0 to MaxBlocks such blocks
ZigzagInputs(N) ==
    { Flatten(bl) : bl \in UNION { [1..m -> ZigzagBlocks(N * N)] : m \in 0..MaxBlocks } }

InitZigzag ==
    /\ pc = "zigzag_input"
    /\ CodecIdle
    /\ RleIdle
    /\ \E N \in {8, 16} : unit_in \in { [block_size |-> N, x |-> x] : x \in ZigzagInputs(N) }
    /\ unit_mid = <<>>
    /\ unit_out = <<>>

\* zigzag_scan_blocks(src, N, seq)
ZigzagScan ==
    /\ pc = "zigzag_input"
    /\ unit_mid' = zigzag_scan_blocks(unit_in.x, unit_in.block_size)
    /\ pc' = "zigzag_scanned"
    /\ UNCHANGED <<unit_in, unit_out>>
    /\ UNCHANGED codec_vars
    /\ UNCHANGED rle_vars

\* inverse_zigzag_blocks(seq, N, recon)
ZigzagInverse ==
    /\ pc = "zigzag_scanned"
    /\ unit_mid.ok
    /\ unit_out' = inverse_zigzag_blocks(unit_mid.seq, unit_in.block_size)
    /\ pc' = "zigzag_inverted"
    /\ UNCHANGED <<unit_in, unit_mid>>
    /\ UNCHANGED codec_vars
    /\ UNCHANGED rle_vars

NextZigzag == ZigzagScan \/ ZigzagInverse

SpecZigzag == InitZigzag /\ [][NextZigzag]_vars

\* ---- pack_rle_symbols and unpack_rle_symbols ----
PackValues == {-I16Max - 1, -1, 0, I16Max}
PackRuns == {0, 62, U16Mod - 1}
PackPairs == { RlePair(v, r) : v \in PackValues, r \in PackRuns }
PackSymbols ==
    {W(0, 0), W(0, 65535), W(65535, 0), W(65535, 65535), W(62, 32768), W(1, 32767)}

\* a pair stream, or a symbol stream, of 0 to MaxSymbols elements
InitPack ==
    /\ CodecIdle
    /\ RleIdle
    /\ \/ /\ pc = "pack_input"
          /\ unit_in \in UNION { [1..n -> PackPairs] : n \in 0..MaxSymbols }
       \/ /\ pc = "unpack_input"
          /\ unit_in \in UNION { [1..n -> PackSymbols] : n \in 0..MaxSymbols }
    /\ unit_mid = <<>>
    /\ unit_out = <<>>

\* pack_rle_symbols(pairs, symbols)
Pack ==
    /\ pc = "pack_input"
    /\ unit_mid' = pack_rle_symbols(unit_in)
    /\ pc' = "packed"
    /\ UNCHANGED <<unit_in, unit_out>>
    /\ UNCHANGED codec_vars
    /\ UNCHANGED rle_vars

\* unpack_rle_symbols(symbols, pairs) on the packed symbols
Unpack ==
    /\ pc = "packed"
    /\ unit_out' = unpack_rle_symbols(unit_mid)
    /\ pc' = "pack_unpacked"
    /\ UNCHANGED <<unit_in, unit_mid>>
    /\ UNCHANGED codec_vars
    /\ UNCHANGED rle_vars

\* unpack_rle_symbols(symbols, pairs)
UnpackSymbols ==
    /\ pc = "unpack_input"
    /\ unit_mid' = unpack_rle_symbols(unit_in)
    /\ pc' = "unpacked"
    /\ UNCHANGED <<unit_in, unit_out>>
    /\ UNCHANGED codec_vars
    /\ UNCHANGED rle_vars

\* pack_rle_symbols(pairs, symbols) on the unpacked pairs
Repack ==
    /\ pc = "unpacked"
    /\ unit_out' = pack_rle_symbols(unit_mid)
    /\ pc' = "unpack_packed"
    /\ UNCHANGED <<unit_in, unit_mid>>
    /\ UNCHANGED codec_vars
    /\ UNCHANGED rle_vars

NextPack == Pack \/ Unpack \/ UnpackSymbols \/ Repack

SpecPack == InitPack /\ [][NextPack]_vars

\* ---- apply_level_shift, then inverse_level_shift (LevelShiftSelfTest) ----
\* the least, the two middle and the largest value of a b-bit sample
ShiftPixels(b, sg) ==
    IF sg THEN {-Pow2(b - 1), -1, 0, Pow2(b - 1) - 1}
    ELSE {0, Pow2(b - 1) - 1, Pow2(b - 1), Pow2(b) - 1}

\* one-row images of 1 to MaxPixels in-range pixels, for every bits_stored
ShiftImages ==
    UNION { UNION { UNION {
        { Image(n, 1, 1, b, IF b <= 8 THEN 8 ELSE 16, sg,
                IF sg THEN S16 ELSE IF b <= 8 THEN U8 ELSE U16, px) :
            px \in [1..n -> ShiftPixels(b, sg)] } :
        n \in 1..MaxPixels } : b \in 1..16 } : sg \in BOOLEAN }

InitShift ==
    /\ pc = "shift_input"
    /\ CodecIdle
    /\ RleIdle
    /\ unit_in \in ShiftImages
    /\ unit_mid = <<>>
    /\ unit_out = <<>>

\* apply_level_shift(img)
ApplyShift ==
    /\ pc = "shift_input"
    /\ unit_mid' = apply_level_shift(unit_in)
    /\ pc' = "shifted"
    /\ UNCHANGED <<unit_in, unit_out>>
    /\ UNCHANGED codec_vars
    /\ UNCHANGED rle_vars

\* inverse_level_shift(img) on the shifted image
InverseShift ==
    /\ pc = "shifted"
    /\ unit_mid.ok
    /\ unit_out' = inverse_level_shift(unit_mid.img)
    /\ pc' = "unshifted"
    /\ UNCHANGED <<unit_in, unit_mid>>
    /\ UNCHANGED codec_vars
    /\ UNCHANGED rle_vars

NextShift == ApplyShift \/ InverseShift

SpecShift == InitShift /\ [][NextShift]_vars

\* ---- make_grid, tile_to_blocks, then untile_from_blocks (TilingSelfTest) ----
\* w x h images whose pixels are all different and non-zero: the ramp
\* 1, 2, 3, ... of the self-test, and its negation
TileImages ==
    UNION { { Image(w, h, 1, 16, 16, sg, IF sg THEN S16 ELSE U16,
                    [k \in 1..(w * h) |-> IF sg THEN -k ELSE k]) :
                sg \in BOOLEAN } :
            <<w, h>> \in (1..MaxSide) \X (1..MaxSide) }

InitTile ==
    /\ pc = "tile_input"
    /\ CodecIdle
    /\ RleIdle
    /\ unit_in \in { [img |-> i, block_size |-> B] : i \in TileImages, B \in {8, 16} }
    /\ unit_mid = <<>>
    /\ unit_out = <<>>

\* BlockGrid g = make_grid(img.width, img.height, B); padded = tile_to_blocks(img, g)
Tile ==
    /\ pc = "tile_input"
    /\ unit_mid' = [g |-> make_grid(unit_in.img.width, unit_in.img.height, unit_in.block_size),
                    tiled |-> tile_to_blocks(unit_in.img,
                                  make_grid(unit_in.img.width, unit_in.img.height,
                                            unit_in.block_size))]
    /\ pc' = "tiled"
    /\ UNCHANGED <<unit_in, unit_out>>
    /\ UNCHANGED codec_vars
    /\ UNCHANGED rle_vars

\* untile_from_blocks(out, g, padded), out an image of the same width and
\* height without pixels
Untile ==
    /\ pc = "tiled"
    /\ unit_mid.g.ok
    /\ unit_mid.tiled.ok
    /\ unit_out' = untile_from_blocks([unit_in.img EXCEPT !.pixels = <<>>],
                                      unit_mid.g, unit_mid.tiled.padded)
    /\ pc' = "untiled"
    /\ UNCHANGED <<unit_in, unit_mid>>
    /\ UNCHANGED codec_vars
    /\ UNCHANGED rle_vars

NextTile == Tile \/ Untile

SpecTile == InitTile /\ [][NextTile]_vars

\* ---- dct2d_blocks, then idct2d_blocks, on one 8 x 8 chunk (DctSelfTest) ----
\* sample levels of magnitude up to 2^24
DctLevels ==
    {-Pow2(24), -Pow2(24) + 1, -1, 0, 1, 255, U16Mod - 1, Pow2(23), Pow2(24) - 1, Pow2(24)}

InitDct ==
    /\ pc = "dct_input"
    /\ CodecIdle
    /\ RleIdle
    /\ unit_in \in { TwoLevelChunk(p, q) : p \in DctLevels, q \in DctLevels }
    /\ unit_mid = <<>>
    /\ unit_out = <<>>

\* dct2d_blocks(src, 8, coeffs)
Dct ==
    /\ pc = "dct_input"
    /\ IsTwoLevelChunk(unit_in)
    /\ unit_mid' = dct2d_outcomes(unit_in)
    /\ pc' = "dct_done"
    /\ UNCHANGED <<unit_in, unit_out>>
    /\ UNCHANGED codec_vars
    /\ UNCHANGED rle_vars

\* idct2d_blocks(coeffs, 8, recon)
Idct ==
    /\ pc = "dct_done"
    /\ unit_out' = idct2d_outcomes(unit_mid)
    /\ pc' = "idct_done"
    /\ UNCHANGED <<unit_in, unit_mid>>
    /\ UNCHANGED codec_vars
    /\ UNCHANGED rle_vars

NextDct == Dct \/ Idct

SpecDct == InitDct /\ [][NextDct]_vars

\* ---- rle_decode_zeros on any stream of pairs ----
RleDecPairs == { RlePair(v, r) : v \in {0, 5}, r \in {0, 1, 62} }
RleDecStreams == UNION { [1..n -> RleDecPairs] : n \in 0..MaxPairs }
RleDecTotals == {0, 1, 2, 3, 63, 64, 65, 128}

InitRleDec ==
    /\ pc = "rledec_input"
    /\ CodecIdle
    /\ RleIdle
    /\ unit_in \in { [rle |-> s, block_size |-> b, total_coeffs |-> t] :
                        s \in RleDecStreams, b \in {7, 8, 16}, t \in RleDecTotals }
    /\ unit_mid = <<>>
    /\ unit_out = <<>>

\* rle_decode_zeros(rle, block_size, total_coeffs, seq)
RleDecodeStream ==
    /\ pc = "rledec_input"
    /\ unit_out' = rle_decode_zeros(unit_in.rle, unit_in.block_size,
                                    OfNat(unit_in.total_coeffs))
    /\ pc' = "rledec_done"
    /\ UNCHANGED <<unit_in, unit_mid>>
    /\ UNCHANGED codec_vars
    /\ UNCHANGED rle_vars

NextRleDec == RleDecodeStream

SpecRleDec == InitRleDec /\ [][NextRleDec]_vars

\* ---- huff_encode, the table rebuilt from its code lengths as the decoder
\* does, and huff_decode with the rebuilt table ----
\* symbol streams: the histograms of 1 to MaxSymbols symbols, and runs of up
\* to 3 * MaxSymbols copies of one symbol, more than one byte of bits
RebuildStreams ==
    { StreamOf(SortedBySymbol(h), 1) : h \in Histograms }
        \cup { Fill(n, sym) : n \in 1..(3 * MaxSymbols), sym \in CanonSymbols }

InitRebuild ==
    /\ pc = "rebuild_input"
    /\ CodecIdle
    /\ RleIdle
    /\ unit_in \in RebuildStreams
    /\ unit_mid = <<>>
    /\ unit_out = <<>>

\* auto encoded = huff_encode(symbols)
RebuildEncode ==
    /\ pc = "rebuild_input"
    /\ unit_mid' = huff_encode(unit_in)
    /\ pc' = "rebuild_encoded"
    /\ UNCHANGED <<unit_in, unit_out>>
    /\ UNCHANGED codec_vars
    /\ UNCHANGED rle_vars

\* the entries the encoder serializes, through build_table_from_code_lengths
RebuildTable ==
    /\ pc = "rebuild_encoded"
    /\ unit_mid.ok
    /\ unit_out' = [table |-> build_table_from_code_lengths(collect_table_entries(unit_mid.table)),
                    decoded |-> [ok |-> FALSE, symbols |-> <<>>]]
    /\ pc' = "rebuild_built"
    /\ UNCHANGED <<unit_in, unit_mid>>
    /\ UNCHANGED codec_vars
    /\ UNCHANGED rle_vars

\* huff_decode(bits, rebuilt table, symbols.size(), decoded)
RebuildDecode ==
    /\ pc = "rebuild_built"
    /\ unit_out.table.ok
    /\ unit_out' = [unit_out EXCEPT !.decoded =
                       huff_decode(unit_mid.bits, unit_out.table, Len(unit_in))]
    /\ pc' = "rebuild_decoded"
    /\ UNCHANGED <<unit_in, unit_mid>>
    /\ UNCHANGED codec_vars
    /\ UNCHANGED rle_vars

NextRebuild == RebuildEncode \/ RebuildTable \/ RebuildDecode

SpecRebuild == InitRebuild /\ [][NextRebuild]_vars

\* ---- build_canonical_table on histograms of many symbols ----
\* the k-th number of the sequence a, b, a + b, ...
RECURSIVE FibFrom(_, _, _)
FibFrom(k, a, b) == IF k = 1 THEN a ELSE FibFrom(k - 1, b, a + b)

\* the frequency of the k-th of n symbols: a Fibonacci sequence (a tree that
\* is one long chain), the same from the largest symbol down, equal
\* frequencies (a balanced tree) and frequencies 1, 2, 3, ...
DepthFamilies == {"fib", "fib_down", "flat", "linear"}
DepthFreq(family, n, k) ==
    IF family = "fib" THEN FibFrom(k, 1, 1)
    ELSE IF family = "fib_down" THEN FibFrom(n + 1 - k, 1, 1)
    ELSE IF family = "flat" THEN 1
    ELSE k
DepthHistogram(family, n) == [k \in 1..n |-> <<W(0, k - 1), DepthFreq(family, n, k)>>]

InitDepth ==
    /\ pc = "depth_input"
    /\ CodecIdle
    /\ RleIdle
    /\ unit_in \in { DepthHistogram(f, n) : f \in DepthFamilies, n \in 1..MaxLeaves }
    /\ unit_mid = <<>>
    /\ unit_out = <<>>

\* HuffTable t = build_canonical_table(freqs)
DepthBuild ==
    /\ pc = "depth_input"
    /\ unit_out' = build_canonical_table(unit_in)
    /\ pc' = "depth_built"
    /\ UNCHANGED <<unit_in, unit_mid>>
    /\ UNCHANGED codec_vars
    /\ UNCHANGED rle_vars

\* the entries the encoder serializes for the table, through
\* build_table_from_code_lengths, as the decoder does
DepthRebuild ==
    /\ pc = "depth_built"
    /\ unit_out.ok
    /\ unit_mid' = build_table_from_code_lengths(collect_table_entries(unit_out))
    /\ pc' = "depth_rebuilt"
    /\ UNCHANGED <<unit_in, unit_out>>
    /\ UNCHANGED codec_vars
    /\ UNCHANGED rle_vars

NextDepth == DepthBuild \/ DepthRebuild

SpecDepth == InitDepth /\ [][NextDepth]_vars

\* ---- build_table_from_code_lengths on any list of entries ----
\* entries as a container can carry them: small symbols and the largest,
\* lengths 1, 2, 3 and 32, a symbol possibly more than once
EntrySymbols == {W(0, 0), W(0, 1), W(0, 2), W(65535, 65535)}
EntryLengths == {1, 2, 3, 32}
EntryLists == UNION { [1..n -> EntrySymbols \X EntryLengths] : n \in 1..MaxEntries }

InitEntries ==
    /\ pc = "entries_input"
    /\ CodecIdle
    /\ RleIdle
    /\ unit_in \in EntryLists
    /\ unit_mid = <<>>
    /\ unit_out = <<>>

\* HuffTable table = build_table_from_code_lengths(entries)
EntriesBuild ==
    /\ pc = "entries_input"
    /\ unit_mid' \in table_outcomes(unit_in, build_table_from_code_lengths(unit_in))
    /\ pc' = "entries_built"
    /\ UNCHANGED <<unit_in, unit_out>>
    /\ UNCHANGED codec_vars
    /\ UNCHANGED rle_vars

NextEntries == EntriesBuild

SpecEntries == InitEntries /\ [][NextEntries]_vars

\* ---- huff_decode on any bit buffer, table and symbol count ----
\* tables built from entries: one symbol; two symbols; a full code of three;
\* a code with an unused branch; lengths that overfill the tree; one long code
DecodeEntryLists ==
    { <<<<W(0, 7), 1>>>>,
      <<<<W(0, 7), 1>>, <<W(0, 8), 1>>>>,
      <<<<W(0, 7), 1>>, <<W(0, 8), 2>>, <<W(62, 0), 2>>>>,
      <<<<W(0, 7), 2>>, <<W(0, 8), 2>>>>,
      <<<<W(0, 7), 1>>, <<W(0, 8), 1>>, <<W(62, 0), 2>>>>,
      <<<<W(0, 7), 3>>>> }

\* tables no build returns: no node at all, a root that carries a symbol, a
\* root linked to itself, a link outside the node vector
DecodeOddTables ==
    { [ok |-> TRUE, enc |-> <<>>, enc_size |-> U32Zero, decode_nodes |-> nodes] :
        nodes \in { <<>>,
                    <<HuffNode(-1, -1, W(0, 7))>>,
                    <<HuffNode(0, 0, NoSymbol)>>,
                    <<HuffNode(5, 1, NoSymbol), HuffNode(-1, -1, W(0, 7))>> } }

DecodeTables == { build_table_from_code_lengths(e) : e \in DecodeEntryLists } \cup DecodeOddTables
DecodeBuffers == UNION { [1..n -> {0, 85, 128, 255}] : n \in 0..MaxBytes }
DecodeCounts == {0, 1, 2, 3, 9, 16}

InitDecode ==
    /\ pc = "decode_input"
    /\ CodecIdle
    /\ RleIdle
    /\ unit_in \in { [bits |-> b, table |-> t, symbol_count |-> n] :
                        b \in DecodeBuffers, t \in DecodeTables, n \in DecodeCounts }
    /\ unit_mid = <<>>
    /\ unit_out = <<>>

\* huff_decode(bits, table, symbol_count, out)
HuffDecodeAny ==
    /\ pc = "decode_input"
    /\ unit_out' = huff_decode(unit_in.bits, unit_in.table, unit_in.symbol_count)
    /\ pc' = "decode_done"
    /\ UNCHANGED <<unit_in, unit_mid>>
    /\ UNCHANGED codec_vars
    /\ UNCHANGED rle_vars

NextDecode == HuffDecodeAny

SpecDecode == InitDecode /\ [][NextDecode]_vars

(***************************************************************************)
(* make_zigzag_order, one antidiagonal of its loop at a time               *)
(***************************************************************************)
MaxOrderSide == 12

\* the first side whose square leaves int, and the side whose square is 2^32
OverflowSide == 46341
WrapSide == 65536

OrderSides == (-1..MaxOrderSide) \cup {OverflowSide, WrapSide}

\* int N * N as the build computes it: the low 32 bits of the product
order_size(N) ==
    LET h == N \div U16Mod
        l == N % U16Mod
        p == l \div 256
        q == l % 256
        low == 2 * p * q * 256 + q * q IN
    W((p * p + low \div U16Mod + 2 * h * l) % U16Mod, low % U16Mod)

\* the vector after the cells of one antidiagonal are stored from idx on
order_store(order, idx, cells) ==
    [i \in 1..Len(order) |->
        IF i > idx /\ i <= idx + Len(cells) THEN cells[i - idx] ELSE order[i]]

InitOrder ==
    /\ pc = "order_input"
    /\ CodecIdle
    /\ RleIdle
    /\ unit_in \in OrderSides
    /\ unit_mid = <<>>
    /\ unit_out = <<>>

\* the check of N and std::vector<int> order(static_cast<size_t>(N * N)):
\* a product with the sign bit set converts to a size no vector can have
OrderStart ==
    /\ pc = "order_input"
    /\ IF unit_in <= 0 \/ order_size(unit_in).hi >= U16Mod \div 2
       THEN /\ pc' = "order_failed"
            /\ unit_mid' = [status |-> "error", s |-> 0, idx |-> 0, order |-> <<>>]
       ELSE /\ pc' = "order_loop"
            /\ unit_mid' = [status |-> "ok", s |-> 0, idx |-> 0,
                            order |-> Fill(order_size(unit_in).hi * U16Mod
                                            + order_size(unit_in).lo, 0)]
    /\ UNCHANGED <<unit_in, unit_out>>
    /\ UNCHANGED codec_vars
    /\ UNCHANGED rle_vars

\* one iteration of the loop over s; a store past the vector's end stops the run
OrderDiagonal ==
    /\ pc = "order_loop"
    /\ unit_mid.s <= 2 * (unit_in - 1)
    /\ IF unit_mid.idx + Len(ZigzagDiagonal(unit_in, unit_mid.s)) > Len(unit_mid.order)
       THEN /\ pc' = "order_failed"
            /\ unit_mid' = [unit_mid EXCEPT !.status = "crash"]
       ELSE /\ pc' = "order_loop"
            /\ unit_mid' = [status |-> "ok",
                            s |-> unit_mid.s + 1,
                            idx |-> unit_mid.idx + Len(ZigzagDiagonal(unit_in, unit_mid.s)),
                            order |-> order_store(unit_mid.order, unit_mid.idx,
                                                  ZigzagDiagonal(unit_in, unit_mid.s))]
    /\ UNCHANGED <<unit_in, unit_out>>
    /\ UNCHANGED codec_vars
    /\ UNCHANGED rle_vars

\* return order
OrderReturn ==
    /\ pc = "order_loop"
    /\ unit_mid.s > 2 * (unit_in - 1)
    /\ unit_out' = unit_mid.order
    /\ pc' = "order_returned"
    /\ UNCHANGED <<unit_in, unit_mid>>
    /\ UNCHANGED codec_vars
    /\ UNCHANGED rle_vars

NextOrder == OrderStart \/ OrderDiagonal \/ OrderReturn

SpecOrder == InitOrder /\ [][NextOrder]_vars

(***************************************************************************)
(* Properties of the encode / decode pipeline                              *)
(***************************************************************************)
ValidImage(i) ==
    /\ i.channels = 1
    /\ i.width > 0
    /\ i.height > 0
    /\ Len(i.pixels) = i.width * i.height
    /\ i.bits_stored \in 1..16
    /\ i.bits_allocated \in {8, 16}

SameDescriptor(a, b) ==
    /\ a.width = b.width
    /\ a.height = b.height
    /\ a.channels = b.channels
    /\ a.bits_stored = b.bits_stored
    /\ a.bits_allocated = b.bits_allocated
    /\ a.is_signed = b.is_signed

Encoded == pc # "start"
Decoded == pc = "decoded"
Untampered == tamper = NoTamper

C2_EncodeRejects ==
    (Encoded /\ (\/ im.channels # 1
                 \/ im.width <= 0
                 \/ im.height <= 0
                 \/ Len(im.pixels) # im.width * im.height
                 \/ quality \notin 1..100)) =>
        (~enc.ok /\ enc.bytes = <<>>)

\* the part of C2 about the image alone
C2_EncodeRejectsImage ==
    (Encoded /\ ~(im.channels = 1 /\ im.width > 0 /\ im.height > 0
                  /\ Len(im.pixels) = im.width * im.height)) =>
        (~enc.ok /\ enc.bytes = <<>>)

\* the header fields of the bytes handed to the decoder, read at their offsets
WireChannels == read_u16_le_at(wire, 16)
WireBitsStored == read_u16_le_at(wire, 20)
WireIsSigned == wire[23]
WireFlags == wire[24]
WireBlockSize == read_u16_le_at(wire, 24)
WireQuality == read_u16_le_at(wire, 26)
WireHeaderBytes == read_u16_le_at(wire, 6)
WirePayloadBytes == read_u32_le_at(wire, 28)

\* C3: decode_from_mcodec fails, returning no image, for every container
\* whose header has block_size outside {8,16}, channels # 1, quality outside
\* 1..100 or bits_stored outside 1..16, whatever the other fields and flags.
C3_DecodeRejectsHeader ==
    (Decoded /\ Len(wire) >= kMCodecHeaderBytes
             /\ (\/ WireBlockSize \notin {8, 16}
                 \/ WireChannels # 1
                 \/ WireQuality \notin 1..100
                 \/ WireBitsStored \notin 1..16)) =>
        dec.status = "error"

\* the part of C3 about block_size and channels
C3_DecodeRejectsGrid ==
    (Decoded /\ Len(wire) >= kMCodecHeaderBytes
             /\ (WireBlockSize \notin {8, 16} \/ WireChannels # 1)) =>
        dec.status = "error"

\* C4: from any container produced by encode_to_mcodec, removing the last
\* byte, overwriting the length byte of a Huffman table entry with 0 or 33,
\* or zeroing the four magic bytes makes decode_from_mcodec fail.
C4_CorruptionRejected ==
    (Decoded /\ tamper.kind \in {"truncate", "length", "magic"}) => dec.status = "error"

C4_Witness ==
    /\ Decoded
    /\ tamper.kind = "length"
    /\ tamper.val = 33
    /\ tamper.off > kMCodecHeaderBytes + 12
    /\ dec.status = "error"

\* header_bytes + payload_bytes of the bytes handed to the decoder, as a
\* mathematical integer
WireDeclaredEnd == WAdd(OfNat(WireHeaderBytes), WirePayloadBytes)

\* C5: decode_from_mcodec rejects every buffer shorter than header_bytes +
\* payload_bytes, the sum taken as a mathematical integer, and never slices
\* a payload range that ends before it starts or past the end of the buffer.
C5_LengthCheckedExactly ==
    (Decoded /\ Len(wire) >= kMCodecHeaderBytes /\ NatLess(Len(wire), WireDeclaredEnd)) =>
        (dec.status = "error" /\ ~dec.undefined)

\* C6: byte 22 of the header written by encode_to_mcodec is the is_signed
\* value of the input image: 0 for an unsigned input, 1 for a signed one.
C6_HeaderSignOfInput ==
    (Encoded /\ enc.ok) => enc.bytes[23] = (IF im.is_signed THEN 1 ELSE 0)

\* the part of C6 about signed inputs
C6_HeaderSignOfSignedInput ==
    (Encoded /\ enc.ok /\ im.is_signed) => enc.bytes[23] = 1

\* the pixels after the forward level shift of an image
ShiftedPixels(i) == [k \in 1..Len(i.pixels) |-> i.pixels[k] - Pow2(i.bits_stored - 1)]

C8_PayloadBytesExact ==
    (Encoded /\ enc.ok) =>
        LET used == read_u32_le_at(enc.bytes, kMCodecHeaderBytes + 4) IN
        /\ read_u32_le_at(enc.bytes, 28) = OfNat(Len(enc.bytes) - kMCodecHeaderBytes)
        /\ used.hi = 0
        /\ used.lo >= 1
        /\ used.lo = Len(enc.table_entries)
        /\ Len(enc.bytes) - kMCodecHeaderBytes = 8 + 5 * used.lo + Len(enc.huff_encode_bits)

C8_Witness ==
    /\ Encoded
    /\ enc.ok
    /\ Len(enc.table_entries) >= 2
    /\ Len(enc.huff_encode_bits) >= 1
    /\ read_u32_le_at(enc.bytes, 28) = OfNat(8 + 5 * 2 + 1)

\* the decode of the container as the encoder returned it
UntamperedDecode == decode_from_mcodec(enc.bytes)

\* the decoder failed, or returned another image than the untampered decode
FailsOrDiffers ==
    \/ dec.status # "ok"
    \/ ~SameDescriptor(dec.img, UntamperedDecode.img)
    \/ dec.img.pixels # UntamperedDecode.img.pixels

\* the change touched nothing but reserved flag bits 1-7 of byte 23
OnlyReservedFlagBits ==
    tamper.off = 23 /\ tamper.val % 2 = enc.bytes[24] % 2

C10_RleRoundTrip ==
    /\ pc \in {"rle_encoded", "rle_decoded"} => rle_pairs.ok
    /\ pc = "rle_decoded" => (rle_out.ok /\ rle_out.seq = rle_in)

\* a two-block buffer: an all-zero block, then a block whose only non-zero
\* AC coefficient is the last one
C10_Witness ==
    /\ pc = "rle_decoded"
    /\ rle_bs = 16
    /\ Len(rle_in) = 512
    /\ \A k \in 1..511 : rle_in[k] = 0
    /\ rle_in[512] # 0
    /\ rle_out.ok
    /\ rle_out.seq = rle_in


(***************************************************************************)
(* Properties of the stages                                                *)
(***************************************************************************)
\* C11: for every non-empty sequence of 32-bit symbols, huff_encode succeeds
\* and huff_decode of its bits with its table and the sequence's length
\* returns exactly the sequence, whatever the 32-bit values of the symbols.
C11_HuffRoundTrip ==
    /\ (pc \in {"huff_encoded", "huff_decoded"} => unit_mid.ok)
    /\ (pc = "huff_decoded" => unit_out.ok /\ unit_out.symbols = unit_in)

\* the round trip for streams that do not hold the symbol 0xFFFFFFFF
C11_HuffRoundTripBelowMax ==
    (\A k \in 1..Len(unit_in) : unit_in[k] # U32Ones) =>
        /\ (pc \in {"huff_encoded", "huff_decoded"} => unit_mid.ok)
        /\ (pc = "huff_decoded" => unit_out.ok /\ unit_out.symbols = unit_in)

\* the frequency the list sym_freq gives the symbol sym
FreqOf(sym_freq, sym) == FreqSum(sym_freq, sym, 1)

\* C12: two builds of the canonical table from the same (symbol, frequency)
\* pairs, whatever the order of the pairs or of the symbols of the stream,
\* give every symbol the same code length and the same code; of two symbols
\* with equal frequencies the smaller one is merged first, so its code is
\* never the shorter one.
C12_CanonicalDeterministic ==
    /\ (pc \in {"canon_rebuilt", "canon_streamed"} =>
            /\ unit_mid.ok
            /\ unit_out.ok
            /\ unit_out.enc = unit_mid.enc)
    /\ (pc = "canon_built" =>
            /\ unit_mid.ok
            /\ \A a, b \in DOMAIN unit_mid.enc :
                   (WLess(a, b) /\ FreqOf(unit_in[1], a) = FreqOf(unit_in[1], b)) =>
                       unit_mid.enc[a].len >= unit_mid.enc[b].len)

\* three symbols of equal frequency, supplied in descending order: the
\* largest symbol has the 1-bit code in both tables
C12_Witness ==
    /\ pc = "canon_rebuilt"
    /\ unit_in[1] = <<<<W(0, 0), 2>>, <<W(0, 7), 2>>, <<W(62, 0), 2>>>>
    /\ unit_in[2] = <<<<W(62, 0), 2>>, <<W(0, 7), 2>>, <<W(0, 0), 2>>>>
    /\ unit_out.enc[W(62, 0)].len = 1
    /\ unit_out.enc[W(0, 0)].len = 2
    /\ unit_out.enc = unit_mid.enc

\* block b (from 0) of a buffer of blocks of n values
BlockOf(x, n, b) == SubSeq(x, b * n + 1, (b + 1) * n)

\* C13: for N in {8, 16} and an int16 buffer of a whole number of N*N blocks,
\* zigzag_scan_blocks succeeds, inverse_zigzag_blocks of its output returns
\* the buffer, and each block of the scan is the scan of that block alone.
C13_ZigzagRoundTrip ==
    LET n == unit_in.block_size * unit_in.block_size IN
    /\ (pc \in {"zigzag_scanned", "zigzag_inverted"} =>
            /\ unit_mid.ok
            /\ Len(unit_mid.seq) = Len(unit_in.x)
            /\ \A b \in 0..(Len(unit_in.x) \div n - 1) :
                   BlockOf(unit_mid.seq, n, b)
                       = zigzag_scan_blocks(BlockOf(unit_in.x, n, b), unit_in.block_size).seq)
    /\ (pc = "zigzag_inverted" => unit_out.ok /\ unit_out.qcoeff = unit_in.x)

\* two different 16 x 16 blocks: the third value of the scan is the first
\* of the second row, and the inverse restores the buffer
C13_Witness ==
    /\ pc = "zigzag_inverted"
    /\ unit_in.block_size = 16
    /\ Len(unit_in.x) = 2 * 256
    /\ BlockOf(unit_in.x, 256, 0) # BlockOf(unit_in.x, 256, 1)
    /\ unit_mid.seq[3] = unit_in.x[17]
    /\ unit_mid.seq # unit_in.x
    /\ unit_out.qcoeff = unit_in.x

\* C14: each packed symbol has the run in its high 16 bits and the low 16
\* bits of the value in its low 16 bits; unpacking the packed symbols gives
\* back the pairs, negative values included, and packing the pairs unpacked
\* from any 32-bit symbols gives back the symbols.
C14_PackBijective ==
    /\ (pc \in {"packed", "pack_unpacked"} =>
            /\ Len(unit_mid) = Len(unit_in)
            /\ \A k \in 1..Len(unit_in) :
                   /\ unit_mid[k].hi = unit_in[k].run
                   /\ unit_mid[k].lo = (unit_in[k].value + U16Mod) % U16Mod)
    /\ (pc = "pack_unpacked" => unit_out = unit_in)
    /\ (pc = "unpacked" =>
            \A k \in 1..Len(unit_in) :
                /\ unit_mid[k].run \in 0..(U16Mod - 1)
                /\ unit_mid[k].value \in (-I16Max - 1)..I16Max)
    /\ (pc = "unpack_packed" => unit_out = unit_in)

\* a stream with a negative value after a full run, round-tripped
C14_Witness ==
    /\ pc = "pack_unpacked"
    /\ Len(unit_in) = 2
    /\ unit_in[1] = RlePair(-1, U16Mod - 1)
    /\ unit_mid[1] = U32Ones
    /\ unit_in[2].value = -I16Max - 1
    /\ unit_out = unit_in

\* C15: on a non-empty unsigned image with bits_stored in 1..16 and pixels
\* in [0, 2^bits_stored - 1], apply_level_shift sets is_signed and
\* inverse_level_shift restores every pixel and clears is_signed; on a
\* signed image apply_level_shift changes neither the pixels nor is_signed.
C15_LevelShiftRoundTrip ==
    /\ ((pc \in {"shifted", "unshifted"} /\ ~unit_in.is_signed) =>
            /\ unit_mid.ok
            /\ unit_mid.img.is_signed)
    /\ ((pc = "unshifted" /\ ~unit_in.is_signed) =>
            /\ unit_out.ok
            /\ unit_out.img.pixels = unit_in.pixels
            /\ ~unit_out.img.is_signed)
    /\ ((pc \in {"shifted", "unshifted"} /\ unit_in.is_signed) =>
            /\ unit_mid.ok
            /\ unit_mid.img = unit_in)

\* a 1-bit image holding both of its values, restored
C15_Witness ==
    /\ pc = "unshifted"
    /\ ~unit_in.is_signed
    /\ unit_in.bits_stored = 1
    /\ unit_in.pixels = <<0, 1>>
    /\ unit_mid.img.pixels = <<-1, 0>>
    /\ unit_out.img.pixels = <<0, 1>>

\* C16: for a single-channel W x H image and g = make_grid(W, H, B), B in
\* {8, 16}, tile_to_blocks returns padded_w * padded_h values with pixel
\* (x, y) at index y * padded_w + x for x < W, y < H and 0 elsewhere, and
\* untile_from_blocks of that raster into an image of the same W and H
\* restores the pixel buffer.
C16_TileRoundTrip ==
    /\ (pc \in {"tiled", "untiled"} =>
            /\ unit_mid.g.ok
            /\ unit_mid.tiled.ok
            /\ Len(unit_mid.tiled.padded) = unit_mid.g.padded_w * unit_mid.g.padded_h
            /\ unit_mid.g.padded_w >= unit_in.img.width
            /\ unit_mid.g.padded_h >= unit_in.img.height
            /\ \A y \in 0..(unit_mid.g.padded_h - 1), x \in 0..(unit_mid.g.padded_w - 1) :
                   unit_mid.tiled.padded[y * unit_mid.g.padded_w + x + 1]
                       = IF x < unit_in.img.width /\ y < unit_in.img.height
                         THEN unit_in.img.pixels[y * unit_in.img.width + x + 1]
                         ELSE 0)
    /\ (pc = "untiled" =>
            /\ unit_out.ok
            /\ unit_out.img.pixels = unit_in.img.pixels)

\* a 9 x 17 image on the 8-grid: padded to 16 x 24, and restored
C16_Witness ==
    /\ pc = "untiled"
    /\ unit_in.block_size = 8
    /\ unit_in.img.width = 9
    /\ unit_in.img.height = 17
    /\ unit_mid.g.padded_w = 16
    /\ unit_mid.g.padded_h = 24
    /\ unit_mid.tiled.padded[16 + 1] = unit_in.img.pixels[9 + 1]
    /\ unit_mid.tiled.padded[10] = 0
    /\ unit_out.img.pixels = unit_in.img.pixels

\* C17: for every 8 x 8 block of int32 values of magnitude at most 2^24,
\* idct2d_blocks of dct2d_blocks of the block is the block: every sample
\* can only come back as itself.
C17_DctRoundTrip ==
    pc = "idct_done" => \A i \in 1..64 : unit_out[i] = {unit_in[i]}

\* the round trip for blocks of 16-bit samples
C17_DctRoundTrip16Bit ==
    (pc = "idct_done" /\ \A i \in 1..64 : Abs(unit_in[i]) < U16Mod) =>
        \A i \in 1..64 : unit_out[i] = {unit_in[i]}

\* C18: every image decode_from_mcodec returns keeps the range of its
\* samples: in [0, 2^bits_stored - 1] if it is unsigned, in
\* [-2^(bits_stored-1), 2^(bits_stored-1) - 1] if it is signed.
C18_DecodedInRange ==
    (pc = "decoded" /\ dec.status = "ok") =>
        /\ dec.img.bits_stored \in 1..16
        /\ \A i \in 1..Len(dec.img.pixels) :
              IF dec.img.is_signed
              THEN /\ dec.img.pixels[i] >= -Pow2(dec.img.bits_stored - 1)
                   /\ dec.img.pixels[i] <= Pow2(dec.img.bits_stored - 1) - 1
              ELSE /\ dec.img.pixels[i] >= 0
                   /\ dec.img.pixels[i] <= Pow2(dec.img.bits_stored) - 1

\* the range is kept whenever the container carries the level-shift flag
C18_DecodedInRangeWhenShifted ==
    (pc = "decoded" /\ dec.status = "ok" /\ dec.inverse_applied) =>
        /\ ~dec.img.is_signed
        /\ dec.img.bits_stored \in 1..16
        /\ \A i \in 1..Len(dec.img.pixels) :
              /\ dec.img.pixels[i] >= 0
              /\ dec.img.pixels[i] <= Pow2(dec.img.bits_stored) - 1

\* the non-zero AC positions of a block, and the one before position j (the
\* DC position 1 if there is none)
NonZeroAc(blk) == {j \in 2..Len(blk) : blk[j] # 0}
PrevEmitted(blk, j) ==
    LET before == {m \in NonZeroAc(blk) : m < j} IN
    IF before = {} THEN 1 ELSE CHOOSE m \in before : \A o \in before : o <= m

\* the pairs the zero-run coder is said to emit for one block: the DC pair,
\* a pair for every non-zero AC value with the zeros since the pair before
\* it, and a last pair (0, r - 1) for r > 0 zeros at the end
AcPairs(blk, S) ==
    LET pos == SelectSeq([j \in 1..Len(blk) |-> j], LAMBDA j : j \in S) IN
    [k \in 1..Len(pos) |->
        [value |-> blk[pos[k]],
         run |-> pos[k] - (IF k = 1 THEN 1 ELSE pos[k - 1]) - 1]]
BlockPairs(blk) ==
    LET r == Len(blk) - PrevEmitted(blk, Len(blk) + 1) IN
    <<[value |-> blk[1], run |-> 0]>> \o AcPairs(blk, NonZeroAc(blk))
        \o (IF r > 0 THEN <<[value |-> 0, run |-> r - 1]>> ELSE <<>>)

C19_WitnessTwoBlocks ==
    /\ pc = "rle_encoded"
    /\ rle_bs = 8
    /\ Len(rle_in) = 128
    /\ rle_in[64] = 0
    /\ rle_in[66] = 0
    /\ rle_in[128] # 0
    /\ rle_pairs.ok
    /\ Len(rle_pairs.rle) >= 4
    /\ rle_pairs.rle[Len(rle_pairs.rle)].run = 62

\* the length of the expansion of the first k pairs: run zeros and the
\* value, per pair
RECURSIVE ExpansionLen(_, _)
ExpansionLen(rle, k) ==
    IF k = 0 THEN 0 ELSE ExpansionLen(rle, k - 1) + rle[k].run + 1

\* C20: rle_decode_zeros fails for every stream of pairs whose expansion is
\* longer or shorter than total_coeffs, and succeeds only when the
\* expansion has exactly total_coeffs elements; an overshoot is seen at the
\* first pair after which the output is longer than total_coeffs.
C20_RleDecodeLengthChecked ==
    pc = "rledec_done" =>
        LET rle == unit_in.rle
            total == unit_in.total_coeffs
            len == ExpansionLen(rle, Len(rle))
            over == {k \in 1..Len(rle) : ExpansionLen(rle, k) > total} IN
        /\ len # total => ~unit_out.ok
        /\ unit_out.ok => len = total
        /\ (len = total /\ unit_in.block_size \in {8, 16}) =>
              (unit_out.ok /\ Len(unit_out.seq) = total)
        /\ (over # {} /\ unit_in.block_size \in {8, 16}) =>
              \E k \in over : /\ \A o \in over : k <= o
                              /\ Len(unit_out.seq) = ExpansionLen(rle, k)

\* a stream one element short of total_coeffs, refused
C20_Witness ==
    /\ pc = "rledec_done"
    /\ unit_in.block_size = 8
    /\ unit_in.total_coeffs = 64
    /\ ExpansionLen(unit_in.rle, Len(unit_in.rle)) = 63
    /\ ~unit_out.ok

\* a stream that runs past total_coeffs at its second pair of three
C20_WitnessOvershoot ==
    /\ pc = "rledec_done"
    /\ unit_in.block_size = 8
    /\ unit_in.total_coeffs = 64
    /\ Len(unit_in.rle) = 3
    /\ ExpansionLen(unit_in.rle, 1) <= 64
    /\ ExpansionLen(unit_in.rle, 2) > 64
    /\ ~unit_out.ok
    /\ Len(unit_out.seq) = ExpansionLen(unit_in.rle, 2)

\* a stream of exactly total_coeffs elements, accepted
C20_WitnessExact ==
    /\ pc = "rledec_done"
    /\ unit_in.total_coeffs = 64
    /\ Len(unit_in.rle) = 2
    /\ unit_out.ok
    /\ Len(unit_out.seq) = 64

\* a stream that repeats one symbol
IsOneSymbolStream(symbols) == symbols # <<>> /\ \A k \in 1..Len(symbols) : symbols[k] = symbols[1]

\* C21: for a stream of n copies of one symbol, build_canonical_table gives
\* the symbol the code 0 of length 1 and a trie of two nodes whose root has
\* the terminal as left child and no right child;
\* build_table_from_code_lengths of the entry (symbol, 1) builds the same
\* code and trie; the stream encodes to n zero bits and decodes back to n
\* copies.
C21_SingleSymbolTable ==
    IsOneSymbolStream(unit_in) =>
        /\ (pc \in {"rebuild_encoded", "rebuild_built", "rebuild_decoded"} =>
               /\ unit_mid.ok
               /\ DOMAIN unit_mid.table.enc = {unit_in[1]}
               /\ unit_mid.table.enc[unit_in[1]] = [code |-> U32Zero, len |-> 1]
               /\ unit_mid.table.decode_nodes =
                      <<HuffNode(1, -1, NoSymbol), HuffNode(-1, -1, unit_in[1])>>
               /\ Len(unit_mid.bits) = (Len(unit_in) + 7) \div 8
               /\ \A k \in 1..Len(unit_mid.bits) : unit_mid.bits[k] = 0)
        /\ (pc \in {"rebuild_built", "rebuild_decoded"} =>
               /\ collect_table_entries(unit_mid.table) = <<<<unit_in[1], 1>>>>
               /\ unit_out.table.ok
               /\ unit_out.table.enc = unit_mid.table.enc
               /\ unit_out.table.decode_nodes = unit_mid.table.decode_nodes)
        /\ (pc = "rebuild_decoded" =>
               /\ unit_out.decoded.ok
               /\ unit_out.decoded.symbols = unit_in)

\* nine copies of the symbol 7: two bytes of zero bits, decoded to nine copies
C21_Witness ==
    /\ pc = "rebuild_decoded"
    /\ unit_in = Fill(9, W(0, 7))
    /\ unit_mid.bits = <<0, 0>>
    /\ unit_out.decoded.ok
    /\ unit_out.decoded.symbols = unit_in

\* the depth of the deepest leaf below cur in the merged tree
RECURSIVE LeafDepth(_, _)
LeafDepth(nodes, cur) ==
    IF cur.left = -1 /\ cur.right = -1 THEN 0
    ELSE 1 + Max(LeafDepth(nodes, nodes[cur.left + 1]), LeafDepth(nodes, nodes[cur.right + 1]))

\* the depth of the Huffman tree of a histogram of two or more symbols
TreeDepth(sym_freq) ==
    LET merged == huff_merge({HeapNode(sym_freq[k][2], sym_freq[k][1], -1, -1) :
                                 k \in 1..Len(sym_freq)}, <<>>) IN
    LeafDepth(merged.nodes, PqTop(merged.pq))

\* C22: every code length of a table returned by build_canonical_table lies
\* in 1..32; a histogram whose Huffman tree has a leaf deeper than 32 is
\* refused, one whose deepest leaf is at depth 32 or less is accepted.
C22_CodeLengthsBounded ==
    pc \in {"depth_built", "depth_rebuilt"} =>
        /\ unit_out.ok =>
              \A sym \in DOMAIN unit_out.enc : unit_out.enc[sym].len \in 1..32
        /\ Len(unit_in) >= 2 =>
              (unit_out.ok <=> TreeDepth(unit_in) <= 32)
        /\ (Len(unit_in) >= 2 /\ unit_out.ok) =>
              \E sym \in DOMAIN unit_out.enc : unit_out.enc[sym].len = TreeDepth(unit_in)
        /\ Len(unit_in) = 1 => unit_out.ok

\* 33 symbols with Fibonacci frequencies: the two rarest get codes of length 32
C22_Witness ==
    /\ pc = "depth_built"
    /\ Len(unit_in) = 33
    /\ unit_out.ok
    /\ unit_out.enc[W(0, 0)].len = 32
    /\ unit_out.enc[W(0, 1)].len = 32
    /\ unit_out.enc[W(0, 32)].len = 1

\* 34 symbols with Fibonacci frequencies: a leaf at depth 33, no table
C22_WitnessRefused ==
    /\ pc = "depth_built"
    /\ Len(unit_in) = 34
    /\ TreeDepth(unit_in) = 33
    /\ ~unit_out.ok

\* the bit strings (most significant bit first) that lead from node to a
\* terminal of the decode trie, each with the symbol it decodes to
RECURSIVE TrieCodes(_, _, _)
TrieCodes(nodes, node, path) ==
    LET nd == nodes[node + 1] IN
    IF nd.symbol # NoSymbol THEN {<<path, nd.symbol>>}
    ELSE (IF nd.left # -1 THEN TrieCodes(nodes, nd.left, Append(path, 0)) ELSE {})
         \cup (IF nd.right # -1 THEN TrieCodes(nodes, nd.right, Append(path, 1)) ELSE {})

\* C23: for every histogram build_canonical_table accepts, the table that
\* build_table_from_code_lengths builds from the (symbol, length) entries,
\* sorted by length then symbol as the encoder writes them, gives every
\* symbol the same code and length, and its decode trie maps the same bit
\* strings to the same symbols.
C23_RebuiltTableSame ==
    pc = "depth_rebuilt" =>
        /\ unit_mid.ok
        /\ DOMAIN unit_mid.enc = DOMAIN unit_out.enc
        /\ \A sym \in DOMAIN unit_out.enc : unit_mid.enc[sym] = unit_out.enc[sym]
        /\ TrieCodes(unit_mid.decode_nodes, 0, <<>>) = TrieCodes(unit_out.decode_nodes, 0, <<>>)
        /\ Cardinality(TrieCodes(unit_out.decode_nodes, 0, <<>>)) = Len(unit_in)

\* seven symbols of frequencies 1..7: lengths 2, 3 and 4, rebuilt alike
C23_Witness ==
    /\ pc = "depth_rebuilt"
    /\ unit_in = DepthHistogram("linear", 7)
    /\ {unit_out.enc[sym].len : sym \in DOMAIN unit_out.enc} = {2, 3, 4}
    /\ unit_mid.ok
    /\ unit_mid.enc = unit_out.enc
    /\ unit_mid.decode_nodes = unit_out.decode_nodes

\* the nodes of a decode trie that carry a symbol
Terminals(nodes) == {n \in 1..Len(nodes) : nodes[n].symbol # NoSymbol}

\* C26: every table build_table_from_code_lengths returns without error is
\* a prefix code: every code is smaller than 2^length, every entry has a
\* terminal node of its own, no terminal node has a child, and the symbol of
\* every entry is reached by some bit string, so huff_decode can produce it.
\* (Stated for the lists without the symbol 0xFFFFFFFF, which C28 is about.)
C26_RebuiltTableIsPrefixCode ==
    (pc = "entries_built" /\ unit_mid.status = "ok"
        /\ \A k \in 1..Len(unit_in) : unit_in[k][1] # U32Ones) =>
        LET t == unit_mid.table IN
        /\ \A sym \in DOMAIN t.enc :
               t.enc[sym].len < 32 => WLess(t.enc[sym].code, U32Shl(W(0, 1), t.enc[sym].len))
        /\ Cardinality(Terminals(t.decode_nodes)) = Len(unit_in)
        /\ \A n \in Terminals(t.decode_nodes) :
               t.decode_nodes[n].left = -1 /\ t.decode_nodes[n].right = -1
        /\ \A k \in 1..Len(unit_in) :
               \E c \in TrieCodes(t.decode_nodes, 0, <<>>) : c[2] = unit_in[k][1]

\* the sum over the entries of 2^(32 - length), in units of 2^29 for the
\* lengths 1, 2 and 3 (a length of 32 adds less than one unit)
RECURSIVE KraftUnits(_, _)
KraftUnits(entries, k) ==
    IF k = 0 THEN 0
    ELSE KraftUnits(entries, k - 1)
         + (IF entries[k][2] = 1 THEN 4 ELSE IF entries[k][2] = 2 THEN 2
            ELSE IF entries[k][2] = 3 THEN 1 ELSE 0)

\* the prefix code of the lists whose lengths fit a binary tree
C26_PrefixCodeWhenLengthsFit ==
    (pc = "entries_built" /\ unit_mid.status = "ok"
        /\ (\A k \in 1..Len(unit_in) : unit_in[k][1] # U32Ones)
        /\ \/ KraftUnits(unit_in, Len(unit_in)) < 8
           \/ /\ KraftUnits(unit_in, Len(unit_in)) = 8
              /\ \A k \in 1..Len(unit_in) : unit_in[k][2] # 32) =>
        LET t == unit_mid.table IN
        /\ Cardinality(Terminals(t.decode_nodes)) = Len(unit_in)
        /\ \A n \in Terminals(t.decode_nodes) :
               t.decode_nodes[n].left = -1 /\ t.decode_nodes[n].right = -1

\* C28: for every list of entries with 32-bit symbols, the symbol
\* 0xFFFFFFFF included, build_table_from_code_lengths runs to its end, the
\* encode map it returns has more entries than the largest symbol, so that
\* every write enc[symbol] was inside the map, and every entry's symbol sits
\* in a trie node where it differs from the "no symbol" marker -1.
C28_LargestSymbolHandled ==
    pc = "entries_built" =>
        /\ unit_mid.status # "crash"
        /\ unit_mid.status = "ok" =>
              /\ \A k \in 1..Len(unit_in) : WLess(unit_in[k][1], unit_mid.table.enc_size)
              /\ \A k \in 1..Len(unit_in) :
                     \E n \in Terminals(unit_mid.table.decode_nodes) :
                         unit_mid.table.decode_nodes[n].symbol = unit_in[k][1]

\* the same for the lists whose symbols are all below 0xFFFFFFFF
C28_SymbolsBelowLargestHandled ==
    (pc = "entries_built" /\ \A k \in 1..Len(unit_in) : unit_in[k][1] # U32Ones) =>
        /\ unit_mid.status # "crash"
        /\ unit_mid.status = "ok" =>
              /\ \A k \in 1..Len(unit_in) : WLess(unit_in[k][1], unit_mid.table.enc_size)
              /\ \A k \in 1..Len(unit_in) :
                     \E n \in Terminals(unit_mid.table.decode_nodes) :
                         unit_mid.table.decode_nodes[n].symbol = unit_in[k][1]

\* bit p (from 0) of a buffer, the most significant bit of each byte first
BitAt(bits, p) == (bits[p \div 8 + 1] \div Pow2(7 - (p % 8))) % 2

\* one symbol read along the trie from bit p on: [ok, symbol, p]; a bit is
\* only ever taken from inside the buffer
RECURSIVE WalkFrom(_, _, _, _)
WalkFrom(nodes, node, bits, p) ==
    IF node < 0 \/ node >= Len(nodes) THEN [ok |-> FALSE, symbol |-> U32Zero, p |-> p]
    ELSE IF nodes[node + 1].symbol # NoSymbol
         THEN [ok |-> TRUE, symbol |-> nodes[node + 1].symbol, p |-> p]
    ELSE IF p >= 8 * Len(bits) THEN [ok |-> FALSE, symbol |-> U32Zero, p |-> p]
    ELSE IF (IF BitAt(bits, p) = 1 THEN nodes[node + 1].right ELSE nodes[node + 1].left) = -1
         THEN [ok |-> FALSE, symbol |-> U32Zero, p |-> p + 1]
    ELSE WalkFrom(nodes, IF BitAt(bits, p) = 1 THEN nodes[node + 1].right
                         ELSE nodes[node + 1].left, bits, p + 1)

\* count symbols read one after the other from bit p on: [ok, symbols, p]
RECURSIVE WalkAll(_, _, _, _, _)
WalkAll(nodes, bits, count, p, out) ==
    IF count = 0 THEN [ok |-> TRUE, symbols |-> out, p |-> p]
    ELSE LET w == WalkFrom(nodes, 0, bits, p) IN
         IF ~w.ok THEN [ok |-> FALSE, symbols |-> out, p |-> w.p]
         ELSE WalkAll(nodes, bits, count - 1, w.p, Append(out, w.symbol))

\* C24: for any bit buffer, table and symbol_count, huff_decode ends and
\* either returns exactly symbol_count symbols or fails (bits exhausted
\* inside a symbol, a null child, a node outside the table); it reads no bit
\* past the end of the buffer, reads the bits of each byte from the most
\* significant one, and the bits after the last symbol change nothing.
C24_HuffDecodeTotal ==
    pc = "decode_done" =>
        LET ref == WalkAll(unit_in.table.decode_nodes, unit_in.bits,
                           unit_in.symbol_count, 0, <<>>)
            used == 8 * unit_out.br.byte_idx + unit_out.br.bit_pos IN
        /\ unit_out.ok => Len(unit_out.symbols) = unit_in.symbol_count
        /\ used <= 8 * Len(unit_in.bits)
        /\ unit_out.ok = ref.ok
        /\ unit_out.symbols = ref.symbols
        /\ used = ref.p
        /\ unit_out.ok =>
              huff_decode(SubSeq(unit_in.bits, 1, (used + 7) \div 8), unit_in.table,
                          unit_in.symbol_count).symbols = unit_out.symbols

\* three symbols of the full code of three read from the first 5 bits
\* 0 10 10 of the byte 0x55: the bits after them are left over and ignored
C24_Witness ==
    /\ pc = "decode_done"
    /\ unit_in.bits = <<85, 255>>
    /\ unit_in.symbol_count = 3
    /\ Len(unit_in.table.decode_nodes) = 5
    /\ unit_out.ok
    /\ unit_out.symbols = <<W(0, 7), W(0, 8), W(0, 8)>>
    /\ unit_out.br = [byte_idx |-> 0, bit_pos |-> 5]

\* the buffer ends inside a symbol: an error, nothing read past the end
C24_WitnessExhausted ==
    /\ pc = "decode_done"
    /\ unit_in.bits = <<0>>
    /\ unit_in.symbol_count = 9
    /\ Len(unit_in.table.decode_nodes) = 2
    /\ ~unit_out.ok
    /\ Len(unit_out.symbols) = 8
    /\ unit_out.br = [byte_idx |-> 1, bit_pos |-> 0]

(***************************************************************************)
(* Properties of make_zigzag_order                                         *)
(***************************************************************************)
\* o lists every index of an N x N block once, by increasing antidiagonal,
\* x increasing inside an even antidiagonal and y inside an odd one
IsZigzagOrder(N, o) ==
    /\ Len(o) = N * N
    /\ \A v \in 0..(N * N - 1) : Cardinality({k \in 1..Len(o) : o[k] = v}) = 1
    /\ \A k \in 1..Len(o) : \A j \in (k + 1)..Len(o) :
          LET xk == o[k] % N
              yk == o[k] \div N
              xj == o[j] % N
              yj == o[j] \div N IN
          \/ xk + yk < xj + yj
          \/ /\ xk + yk = xj + yj
             /\ IF (xk + yk) % 2 = 0 THEN xk < xj ELSE yk < yj

ZigzagStart8 == <<0, 1, 8, 16, 9, 2, 3, 10, 17, 24>>

\* C25: for every N > 0 make_zigzag_order(N) returns, and what it returns is
\* a permutation of 0..N*N-1 that lists the cells y*N + x by increasing
\* antidiagonal, x increasing inside an even one and y inside an odd one; for
\* N = 8 it starts 0, 1, 8, 16, 9, 2, 3, 10, 17, 24 and ends at 63.
C25_ZigzagOrderForEverySide ==
    (unit_in > 0 /\ pc \in {"order_returned", "order_failed"})
        => /\ pc = "order_returned"
           /\ IsZigzagOrder(unit_in, unit_out)
           /\ unit_in = 8 => /\ SubSeq(unit_out, 1, Len(ZigzagStart8)) = ZigzagStart8
                             /\ unit_out[Len(unit_out)] = 63

\* C25, for the sides whose square is an int: the same statement holds, and
\* the order equals the one the block scan uses
C25_ZigzagOrderWhenSquareFits ==
    (unit_in > 0 /\ unit_in < OverflowSide /\ pc \in {"order_returned", "order_failed"})
        => /\ pc = "order_returned"
           /\ IsZigzagOrder(unit_in, unit_out)
           /\ unit_out = make_zigzag_order(unit_in)
           /\ unit_in = 8 => /\ SubSeq(unit_out, 1, Len(ZigzagStart8)) = ZigzagStart8
                             /\ unit_out[Len(unit_out)] = 63

\* a side of 8 returns its order
C25_WitnessSide8 == pc = "order_returned" /\ unit_in = 8 /\ Len(unit_out) = 64

\* the side whose square wraps to 0 stops at its first store
C25_WitnessWrap == pc = "order_failed" /\ unit_in = WrapSide /\ unit_mid.status = "crash"

TypeOfDescriptor(img) ==
    IF img.is_signed THEN S16 ELSE IF img.bits_allocated <= 8 THEN U8 ELSE U16

\* C29: the image decode_from_mcodec returns has the type of its own
\* descriptor: S16 exactly when is_signed is true, otherwise U8 when
\* bits_allocated <= 8 and U16 when bits_allocated is 16; the decode of an
\* encoded unsigned image has an unsigned type.
C29_DecodedTypeOfDescriptor ==
    (Decoded /\ dec.status = "ok") =>
        /\ dec.img.type = S16 <=> dec.img.is_signed
        /\ ~dec.img.is_signed =>
              /\ dec.img.bits_allocated <= 8 => dec.img.type = U8
              /\ dec.img.bits_allocated = 16 => dec.img.type = U16
        /\ (Untampered /\ ~im.is_signed) => dec.img.type \in {U8, U16}

\* C29, for the containers whose level-shift flag is clear: the returned type
\* is the type of the returned descriptor
C29_DecodedTypeWhenNotShifted ==
    (Decoded /\ dec.status = "ok" /\ ~dec.inverse_applied) =>
        dec.img.type = TypeOfDescriptor(dec.img)

\* an unsigned 8-bit image encoded and decoded
C29_WitnessUnsigned ==
    /\ Decoded
    /\ Untampered
    /\ dec.status = "ok"
    /\ ~im.is_signed
    /\ im.bits_allocated = 8

\* a signed image encoded and decoded
C29_WitnessSigned ==
    /\ Decoded
    /\ Untampered
    /\ dec.status = "ok"
    /\ im.is_signed
    /\ dec.img.type = S16

\* for each of the pairs a .. b, the number of coefficients that the pairs
\* up to it stand for, given that the pairs before a stand for base
RECURSIVE RunEnds(_, _, _, _)
RunEnds(pairs, a, b, base) ==
    IF a > b THEN <<>>
    ELSE IF a = b THEN <<base + pairs[a].run + 1>>
    ELSE LET left == RunEnds(pairs, a, (a + b) \div 2, base) IN
         left \o RunEnds(pairs, (a + b) \div 2 + 1, b, left[Len(left)])

\* C30: for block_size B in {8, 16} and any input, every pair that
\* rle_encode_zeros emits has run <= B*B - 2, so no pair (0, 0xFFFF) is
\* emitted; within each block the values run + 1 of its pairs sum to B*B,
\* and each block emits between 1 and B*B pairs.  The pairs of block b are
\* those whose coefficients end in the block; the first of them is its DC
\* pair.
C30_RleRunsBounded ==
    pc \in {"rle_encoded", "rle_decoded"} =>
        LET n == rle_bs * rle_bs
            pairs == rle_pairs.rle
            nblocks == Len(rle_in) \div n
            ends == RunEnds(pairs, 1, Len(pairs), 0)
            of_block == [b \in 1..nblocks |->
                            {k \in 1..Len(pairs) : ends[k] > (b - 1) * n /\ ends[k] <= b * n}] IN
        /\ rle_pairs.ok
        /\ \A k \in 1..Len(pairs) :
              /\ pairs[k].run <= n - 2
              /\ pairs[k] # RlePair(0, U16Mod - 1)
        /\ \A b \in 1..nblocks :
              /\ \E k \in of_block[b] : ends[k] = b * n
              /\ \E k \in of_block[b] :
                    /\ ends[k] = (b - 1) * n + 1
                    /\ pairs[k] = RlePair(rle_in[(b - 1) * n + 1], 0)
              /\ Cardinality(of_block[b]) \in 1..n
        /\ Len(pairs) > 0 => ends[Len(pairs)] = nblocks * n
        /\ Len(pairs) = 0 => nblocks = 0

\* a 16 x 16 block whose only non-zero AC coefficient is the last one: the
\* pair of that coefficient has the longest run, 254
C30_WitnessLongestRun ==
    /\ pc = "rle_encoded"
    /\ rle_bs = 16
    /\ Len(rle_in) = 256
    /\ rle_pairs.ok
    /\ \E k \in 1..Len(rle_pairs.rle) :
          rle_pairs.rle[k].run = 254 /\ rle_pairs.rle[k].value # 0

\* a 16 x 16 block without a zero gives 256 pairs
C30_WitnessMostPairs ==
    /\ pc = "rle_encoded"
    /\ rle_bs = 16
    /\ Len(rle_in) = 256
    /\ rle_pairs.ok
    /\ Len(rle_pairs.rle) = 256

====
